---- MODULE Spec2Model ----
(***************************************************************************)
(* Verification model of the liveon content pipelines.                     *)
(*                                                                         *)
(*  - TipPublisher.publish over a tip repository (tip_publisher.py,        *)
(*    sqlite_repo.py): specification PubSpec.                              *)
(*  - TipPipeline.run, the editor-in-the-loop generation cycle             *)
(*    (pipeline.py), publishing through TipPublisher: specification        *)
(*    TipSpec (FairTipSpec adds the fairness of a sequential program).     *)
(*  - LongevityNewsAggregator.gather, feed by feed and entry by entry      *)
(*    (aggregator.py): specification AggSpec.                              *)
(*  - LocalDBPublisher.publish over the article tables and                 *)
(*    GitPublisher.publish over a content directory (publisher.py):        *)
(*    specification ArticlePubSpec.                                        *)
(*  - ContentPipeline.run, selection, summarizer, editor and publisher     *)
(*    (pipeline.py): specification ContentSpec.                            *)
(*  - The two command line entry points over their pipelines               *)
(*    (run_pipeline.py, run_tip_pipeline.py): specification PipelinesSpec. *)
(*  - gather over entries that share a GUID or a title and time:           *)
(*    specification SharedKeySpec.                                         *)
(*  - LocalSQLiteContentRepository.save_article sequences, inserts and     *)
(*    upserts (sqlite_repo.py): specification ArticleRepoSpec.             *)
(*                                                                         *)
(* Text fields of drafts and tips are sequences of one-character strings   *)
(* so that str.strip() and NOCASE comparison are computed, not assumed.    *)
(* Log messages are TLA+ strings built the way the f-strings build them.   *)
(***************************************************************************)
EXTENDS Integers, Sequences, FiniteSets, TLC

\* Python None: a string where a str is optional, a record where an object
\* is optional, a date before every date where a datetime is optional.
None == "None"
Nil == [nil |-> TRUE]
NoDate == 0

\* ------------------------------------------------------------------------
\* Bounds of the model
\* ------------------------------------------------------------------------
MaxPublishCalls == 3
MaxRuns == 2

\* ------------------------------------------------------------------------
\* Program constants
\* ------------------------------------------------------------------------
MAX_GENERATION_ATTEMPTS == 3
LATEST_TIPS_LIMIT == 20
DefaultTitle == <<"L","o","n","g","e","v","i","t","y"," ","T","i","p">>
NowDate == 2

\* ------------------------------------------------------------------------
\* Text helpers
\* ------------------------------------------------------------------------
IsSpace(c) == c = " "

RECURSIVE LStrip(_)
LStrip(s) == IF s = <<>> THEN <<>>
             ELSE IF IsSpace(Head(s)) THEN LStrip(Tail(s)) ELSE s

RECURSIVE RStrip(_)
RStrip(s) == IF s = <<>> THEN <<>>
             ELSE IF IsSpace(s[Len(s)]) THEN RStrip(SubSeq(s, 1, Len(s) - 1)) ELSE s

Strip(s) == RStrip(LStrip(s))

LowerChar(c) == IF c = "A" THEN "a" ELSE IF c = "B" THEN "b" ELSE c

Lower(s) == [i \in 1..Len(s) |-> LowerChar(s[i])]

RECURSIVE cleaned_tags(_)
cleaned_tags(tags) ==
    IF tags = <<>> THEN <<>>
    ELSE IF Strip(Head(tags)) # <<>>
         THEN <<Strip(Head(tags))>> \o cleaned_tags(Tail(tags))
         ELSE cleaned_tags(Tail(tags))

TagSet(tags) == {cleaned_tags(tags)[i] : i \in 1..Len(cleaned_tags(tags))}

\* ------------------------------------------------------------------------
\* TipDraft.with_defaults and TipPublisher helpers
\* ------------------------------------------------------------------------
with_defaults(d) ==
    [title |-> IF Strip(d.title) # <<>> THEN Strip(d.title) ELSE DefaultTitle,
     body  |-> Strip(d.body),
     tags  |-> cleaned_tags(d.tags)]

matches(existing, draft) ==
    /\ Strip(existing.title) = Strip(draft.title)
    /\ Strip(existing.content_body) = Strip(draft.body)
    /\ TagSet(existing.tags) = TagSet(draft.tags)

\* ------------------------------------------------------------------------
\* Tip repository (LocalSQLiteContentRepository); a lookup is the set of
\* values the query may return (LIMIT 1 without ORDER BY picks any row).
\* ------------------------------------------------------------------------
Rows(repo) == {repo[i] : i \in 1..Len(repo)}

find_tip_by_title(repo, title) ==
    LET hits == {t \in Rows(repo) : Lower(t.title) = Lower(title)}
    IN IF hits = {} THEN {Nil} ELSE hits

find_tip_by_tags(repo, tags) ==
    LET tag_list == cleaned_tags(tags)
        sought == {tag_list[i] : i \in 1..Len(tag_list)}
        hits == {t \in Rows(repo) :
                    /\ t.tags # <<>>
                    /\ {t.tags[i] : i \in 1..Len(t.tags)} = sought}
    IN IF tag_list = <<>> \/ hits = {} THEN {Nil} ELSE hits

save_tip(repo, tip) ==
    Append(repo, [id |-> Len(repo) + 1,
                  title |-> tip.title,
                  content_body |-> tip.content_body,
                  published_date |-> tip.published_date,
                  tags |-> cleaned_tags(tip.tags)])

find_existing(repo, draft) ==
    LET title == Strip(draft.title)
        ByTitle == IF title # <<>> THEN find_tip_by_title(repo, title) ELSE {Nil}
        ByTags == IF draft.tags # <<>> THEN find_tip_by_tags(repo, draft.tags) ELSE {Nil}
    IN {IF by_title # Nil /\ matches(by_title, draft) THEN by_title
        ELSE IF by_tags # Nil /\ matches(by_tags, draft) THEN by_tags
        ELSE Nil : by_title \in ByTitle, by_tags \in ByTags}

\* Every outcome TipPublisher.publish may have on repository `repo`.
publish(repo, draft, published_at, repo_fails) ==
    LET normalised == with_defaults(draft)
        published == IF published_at # NoDate THEN published_at ELSE NowDate
        tip == [title |-> normalised.title,
                content_body |-> normalised.body,
                published_date |-> published,
                tags |-> normalised.tags]
        saved == save_tip(repo, tip)
    IN IF normalised.body = <<>>
       THEN {[raised |-> TRUE, exc |-> "Tip draft body cannot be empty",
              tip |-> Nil, created |-> FALSE, tips |-> repo, saves |-> 0]}
       ELSE IF repo_fails
       THEN {[raised |-> TRUE, exc |-> "repository unavailable",
              tip |-> Nil, created |-> FALSE, tips |-> repo, saves |-> 0]}
       ELSE {IF existing # Nil
             THEN [raised |-> FALSE, exc |-> None,
                   tip |-> existing, created |-> FALSE, tips |-> repo, saves |-> 0]
             ELSE [raised |-> FALSE, exc |-> None,
                   tip |-> saved[Len(saved)], created |-> TRUE, tips |-> saved, saves |-> 1]
             : existing \in find_existing(repo, normalised)}

\* ------------------------------------------------------------------------
\* LongevityNewsAggregator (aggregator.py, models/aggregator.py)
\*
\* A URL is the 5-tuple urlparse splits it into, each component a sequence
\* of characters, the query a sequence of <<key, value>> pairs; the empty
\* string is the URL whose components are all empty.  Instants are counted
\* in ticks of half a second so that microsecond truncation is computed.
\* List positions are 1-based, 0 stands for "no position".
\* ------------------------------------------------------------------------
MaxFeedLen == 2

TicksPerSecond == 2
FirstNow == 8
DEFAULT_LIMIT_PER_FEED == 5
UntitledUpdate == <<"U","n","t","i","t","l","e","d"," ","u","p","d","a","t","e">>
UtmPrefix == <<"u","t","m","_">>
TRACKING_PARAM_PREFIXES == {UtmPrefix}
TRACKING_PARAM_NAMES == {<<"f","b","c","l","i","d">>, <<"g","c","l","i","d">>}

Url(scheme, netloc, path, query, fragment) ==
    [scheme |-> scheme, netloc |-> netloc, path |-> path, query |-> query,
     fragment |-> fragment]

NoUrl == Url(<<>>, <<>>, <<>>, <<>>, <<>>)

\* len(url) of the text urlunparse would give back
RECURSIVE QueryLen(_)
QueryLen(q) ==
    IF q = <<>> THEN 0
    ELSE Len(Head(q)[1]) + 1 + Len(Head(q)[2])
         + (IF Tail(q) = <<>> THEN 0 ELSE 1 + QueryLen(Tail(q)))

UrlLen(url) ==
      (IF url.scheme = <<>> THEN 0 ELSE Len(url.scheme) + 1)
    + (IF url.netloc = <<>> THEN 0 ELSE 2 + Len(url.netloc))
    + Len(url.path)
    + (IF url.query = <<>> THEN 0 ELSE 1 + QueryLen(url.query))
    + (IF url.fragment = <<>> THEN 0 ELSE 1 + Len(url.fragment))

\* ord() of the characters that occur in query strings
CodePoint(c) ==
    CASE c = "1" -> 49 [] c = "2" -> 50 [] c = "_" -> 95
      [] c = "a" -> 97 [] c = "b" -> 98 [] c = "c" -> 99 [] c = "d" -> 100
      [] c = "f" -> 102 [] c = "g" -> 103 [] c = "i" -> 105 [] c = "l" -> 108
      [] c = "m" -> 109 [] c = "s" -> 115 [] c = "t" -> 116 [] c = "u" -> 117

\* str.__lt__
RECURSIVE StrLess(_, _)
StrLess(a, b) ==
    IF b = <<>> THEN FALSE
    ELSE IF a = <<>> THEN TRUE
    ELSE IF Head(a) = Head(b) THEN StrLess(Tail(a), Tail(b))
    ELSE CodePoint(Head(a)) < CodePoint(Head(b))

\* tuple.__lt__ on (key, value) pairs
PairLess(p, q) == IF p[1] = q[1] THEN StrLess(p[2], q[2]) ELSE StrLess(p[1], q[1])

RECURSIVE InsertPair(_, _)
InsertPair(sorted, p) ==
    IF sorted = <<>> THEN <<p>>
    ELSE IF PairLess(p, Head(sorted)) THEN <<p>> \o sorted
    ELSE <<Head(sorted)>> \o InsertPair(Tail(sorted), p)

\* list.sort() of the query pairs
RECURSIVE SortPairs(_)
SortPairs(q) ==
    IF q = <<>> THEN <<>>
    ELSE InsertPair(SortPairs(SubSeq(q, 1, Len(q) - 1)), q[Len(q)])

StartsWith(s, prefix) ==
    Len(s) >= Len(prefix) /\ SubSeq(s, 1, Len(prefix)) = prefix

\* key.lower().startswith("utm_")
IsUtmKey(key) == StartsWith(Lower(key), UtmPrefix)

RECURSIVE WithoutUtm(_)
WithoutUtm(q) ==
    IF q = <<>> THEN <<>>
    ELSE IF IsUtmKey(Head(q)[1]) THEN WithoutUtm(Tail(q))
    ELSE <<Head(q)>> \o WithoutUtm(Tail(q))

normalise_url(url) ==
    IF url = NoUrl THEN NoUrl
    ELSE Url(Lower(url.scheme), Lower(url.netloc), url.path,
             SortPairs(WithoutUtm(url.query)), <<>>)

has_tracking(url) ==
    /\ url # NoUrl
    /\ \E i \in 1..Len(url.query) : IsUtmKey(url.query[i][1])

NotTruncated(instant) == instant

Truncated(instant) == instant - (instant % TicksPerSecond)

signature_key(item) == <<Lower(Strip(item.title)), Truncated(item.published_at)>>

guid_key(item) == Lower(Strip(item.raw.id))

should_replace_only_missing_url(existing, candidate) ==
    existing.url = NoUrl /\ candidate.url # NoUrl

should_replace(existing, candidate) ==
    IF existing.url = NoUrl /\ candidate.url # NoUrl THEN TRUE
    ELSE IF candidate.url = NoUrl THEN FALSE
    ELSE IF normalise_url(existing.url) = NoUrl THEN TRUE
    ELSE IF normalise_url(existing.url) # normalise_url(candidate.url) THEN FALSE
    ELSE IF has_tracking(existing.url) /\ ~has_tracking(candidate.url) THEN TRUE
    ELSE UrlLen(candidate.url) < UrlLen(existing.url)

\* AggregatedContent.from_feed_entry; now is what datetime.now would return
from_feed_entry(entry, source, now) ==
    [title |-> IF Strip(entry.title) # <<>> THEN Strip(entry.title) ELSE UntitledUpdate,
     url |-> entry.link,
     published_at |-> IF entry.published # NoDate
                      THEN entry.published * TicksPerSecond ELSE now,
     source |-> source,
     raw |-> [id |-> entry.id]]

\* dict operations
EmptyDict == [k \in {} |-> 0]
Put(d, key, value) == [k \in DOMAIN d \cup {key} |-> IF k = key THEN value ELSE d[k]]
Pop(d, key) == [k \in DOMAIN d \ {key} |-> d[k]]

Indexes(by_url, by_guid, by_signature) ==
    [by_url |-> by_url, by_guid |-> by_guid, by_signature |-> by_signature]

remove_indexes_keeping_signature(ix, item) ==
    Indexes(IF normalise_url(item.url) # NoUrl
                THEN Pop(ix.by_url, normalise_url(item.url)) ELSE ix.by_url,
            IF guid_key(item) # <<>> THEN Pop(ix.by_guid, guid_key(item)) ELSE ix.by_guid,
            ix.by_signature)

remove_indexes(ix, item) ==
    Indexes(IF normalise_url(item.url) # NoUrl
                THEN Pop(ix.by_url, normalise_url(item.url)) ELSE ix.by_url,
            IF guid_key(item) # <<>> THEN Pop(ix.by_guid, guid_key(item)) ELSE ix.by_guid,
            Pop(ix.by_signature, signature_key(item)))

record_indexes_without_url(ix, normalized_url, guid, signature, index) ==
    Indexes(ix.by_url,
            IF guid # <<>> THEN Put(ix.by_guid, guid, index) ELSE ix.by_guid,
            Put(ix.by_signature, signature, index))

record_indexes(ix, normalized_url, guid, signature, index) ==
    Indexes(IF normalized_url # NoUrl THEN Put(ix.by_url, normalized_url, index)
                                      ELSE ix.by_url,
            IF guid # <<>> THEN Put(ix.by_guid, guid, index) ELSE ix.by_guid,
            Put(ix.by_signature, signature, index))

\* gather, lines 102-153: the position of the collected item the candidate
\* is compared with, by URL, then GUID, then signature
NoIndex == 0

existing_index_for_guid_first(ix, normalized_url, guid, signature) ==
    IF guid # <<>> /\ guid \in DOMAIN ix.by_guid
        THEN ix.by_guid[guid]
    ELSE IF normalized_url # NoUrl /\ normalized_url \in DOMAIN ix.by_url
        THEN ix.by_url[normalized_url]
    ELSE IF signature \in DOMAIN ix.by_signature
        THEN ix.by_signature[signature]
    ELSE NoIndex

existing_index_for(ix, normalized_url, guid, signature) ==
    IF normalized_url # NoUrl /\ normalized_url \in DOMAIN ix.by_url
        THEN ix.by_url[normalized_url]
    ELSE IF guid # <<>> /\ guid \in DOMAIN ix.by_guid
        THEN ix.by_guid[guid]
    ELSE IF signature \in DOMAIN ix.by_signature
        THEN ix.by_signature[signature]
    ELSE NoIndex

\* gather, line 72 and 95: parsed.entries[:limit]
clamped_limit(limit_per_feed) == IF limit_per_feed > 0 THEN limit_per_feed ELSE 0

unlimited_entries(entries, limit_per_feed) == entries

limited_entries(entries, limit_per_feed) ==
    SubSeq(entries, 1, IF clamped_limit(limit_per_feed) < Len(entries)
                       THEN clamped_limit(limit_per_feed) ELSE Len(entries))

\* gather, lines 77-86: the except clauses around the fetcher call
is_caught_http_only(kind) == kind = "HTTPError"

is_caught(kind) == kind \in {"HTTPError", "Exception"}

FetchFailed(name, exc) == "Failed to fetch feed '" \o name \o "': " \o exc
FetchUnexpected(name, exc) == "Unexpected error fetching feed '" \o name \o "': " \o exc
ParseFailed(name, exc) == "Feed '" \o name \o "' could not be parsed: " \o exc

\* list.sort(key=published_at, reverse=True): stable, descending
RECURSIVE InsertBeforeTies(_, _)
InsertBeforeTies(sorted, item) ==
    IF sorted = <<>> THEN <<item>>
    ELSE IF Head(sorted).published_at > item.published_at
         THEN <<Head(sorted)>> \o InsertBeforeTies(Tail(sorted), item)
         ELSE <<item>> \o sorted

RECURSIVE InsertDescending(_, _)
InsertDescending(sorted, item) ==
    IF sorted = <<>> THEN <<item>>
    ELSE IF Head(sorted).published_at >= item.published_at
         THEN <<Head(sorted)>> \o InsertDescending(Tail(sorted), item)
         ELSE <<item>> \o sorted

RECURSIVE sort_by_published_at(_)
sort_by_published_at(items) ==
    IF items = <<>> THEN <<>>
    ELSE InsertDescending(sort_by_published_at(SubSeq(items, 1, Len(items) - 1)),
                          items[Len(items)])

\* ------------------------------------------------------------------------
\* State
\* ------------------------------------------------------------------------
VARIABLES
    tips,            \* rows of the tips table, in insertion order
    save_calls,      \* number of repository.save_tip calls
    publish_log,     \* one record per TipPublisher.publish call (PubSpec)
    pc,              \* position inside TipPipeline.run
    runs,            \* number of TipPipeline.run invocations started
    aggregation,     \* AggregationResult returned by aggregator.gather
    published_at,    \* the published_at argument of run
    existing_tips,   \* tips fetched for comparison
    feedback,        \* feedback passed to the next generate call
    draft,           \* last draft returned by the generator
    review_result,   \* last review result, None when cleared
    attempt,         \* loop counter
    feedback_log,    \* becomes editor_feedback
    errors,
    warnings,
    result,          \* the TipPipelineResult returned, None while running
    generate_calls,  \* arguments and return value of each generator.generate call
    review_calls,    \* arguments of each editor.review call
    publish_calls,   \* draft argument of each publisher.publish call
    outcomes         \* how each loop iteration of the current run ended

VARIABLES
    feeds,               \* the configured feeds, each with what its fetch and parse give
    limit_per_feed,      \* the argument of gather
    gather_pc,           \* position inside LongevityNewsAggregator.gather
    feed_no,             \* position of the for-feed loop
    entries,             \* parsed.entries[:limit] of the current feed
    entry_no,            \* position of the for-entry loop
    collected,
    feed_errors,         \* the local list errors of gather
    index_by_url,
    index_by_guid,
    index_by_signature,
    aggregated,          \* the candidate built from the current entry
    existing_index,      \* position the candidate is written to
    gathered,            \* the AggregationResult returned, None while running
    clock,               \* what the next datetime.now call returns
    considered,          \* every candidate built so far, with its feed
    replacements         \* every (existing, candidate) pair of a replacement

VARIABLES
    articles,            \* rows of the articles table, in insertion order
    article_sources,     \* rows of the article_sources table
    save_article_calls,  \* the article of each repository.save_article call
    article_log,         \* one record per LocalDBPublisher.publish call
    git_files,           \* the Markdown files under content/articles, in creation order
    git_commits,         \* the commit messages of the Git repository
    git_log              \* one record per GitPublisher.publish call

VARIABLES
    cp_pc,               \* position inside ContentPipeline.run
    cp_runs,             \* number of ContentPipeline.run invocations started
    cp_config,           \* the publisher and the repository the pipeline was built with
    cp_aggregation,      \* AggregationResult returned by aggregator.gather
    cp_slug,             \* the slug argument of run
    lookups,             \* each repository.find_article_by_source_url call of the run
    selected_item,
    cp_draft,
    cp_edited,
    cp_errors,
    cp_warnings,
    cp_result,           \* the PipelineResult returned, Nil while running
    cp_raised,           \* the exception run propagated to its caller, None if none
    summarize_calls,     \* items argument of each summarizer.summarize call
    revise_calls,        \* draft argument of each editor.revise call
    cp_publish_calls,    \* arguments and outcome of each publisher.publish call
    stage_log            \* the collaborator calls of the run, in call order

art_vars == <<articles, article_sources, save_article_calls, article_log, git_files,
              git_commits, git_log>>

cp_vars == <<cp_pc, cp_runs, cp_config, cp_aggregation, cp_slug, lookups, selected_item,
             cp_draft, cp_edited, cp_errors, cp_warnings, cp_result, cp_raised,
             summarize_calls, revise_calls, cp_publish_calls, stage_log>>

content_vars == <<art_vars, cp_vars>>

agg_vars == <<feeds, limit_per_feed, gather_pc, feed_no, entries, entry_no, collected,
              feed_errors, index_by_url, index_by_guid, index_by_signature,
              aggregated, existing_index, gathered, clock, considered, replacements>>

run_vars == <<pc, runs, aggregation, published_at, existing_tips, feedback, draft,
              review_result, attempt, feedback_log, errors, warnings, result,
              generate_calls, review_calls, publish_calls, outcomes>>
vars == <<tips, save_calls, publish_log, pc, runs, aggregation, published_at,
          existing_tips, feedback, draft, review_result, attempt, feedback_log,
          errors, warnings, result, generate_calls, review_calls, publish_calls,
          outcomes, feeds, limit_per_feed, gather_pc, feed_no, entries, entry_no,
          collected, feed_errors, index_by_url, index_by_guid, index_by_signature,
          aggregated, existing_index, gathered, clock, considered, replacements,
          articles, article_sources, save_article_calls, article_log, git_files,
          git_commits, git_log, cp_pc, cp_runs, cp_config, cp_aggregation, cp_slug,
          lookups, selected_item, cp_draft, cp_edited, cp_errors, cp_warnings,
          cp_result, cp_raised, summarize_calls, revise_calls, cp_publish_calls,
          stage_log>>

NoAggregation == [items |-> <<>>, errors |-> <<>>]

RunIdle ==
    /\ pc = "idle"
    /\ runs = 0
    /\ aggregation = NoAggregation
    /\ published_at = NoDate
    /\ existing_tips = <<>>
    /\ feedback = None
    /\ draft = Nil
    /\ review_result = Nil
    /\ attempt = 0
    /\ feedback_log = <<>>
    /\ errors = <<>>
    /\ warnings = <<>>
    /\ result = Nil
    /\ generate_calls = <<>>
    /\ review_calls = <<>>
    /\ publish_calls = <<>>
    /\ outcomes = <<>>

GatherIdle ==
    /\ feeds = <<>>
    /\ limit_per_feed = DEFAULT_LIMIT_PER_FEED
    /\ gather_pc = "idle"
    /\ feed_no = 0
    /\ entries = <<>>
    /\ entry_no = 0
    /\ collected = <<>>
    /\ feed_errors = <<>>
    /\ index_by_url = EmptyDict
    /\ index_by_guid = EmptyDict
    /\ index_by_signature = EmptyDict
    /\ aggregated = Nil
    /\ existing_index = NoIndex
    /\ gathered = Nil
    /\ clock = FirstNow
    /\ considered = <<>>
    /\ replacements = <<>>


ArticlesIdle ==
    /\ articles = <<>>
    /\ article_sources = {}
    /\ save_article_calls = <<>>
    /\ article_log = <<>>
    /\ git_files = <<>>
    /\ git_commits = <<>>
    /\ git_log = <<>>

ContentIdle ==
    /\ cp_pc = "idle"
    /\ cp_runs = 0
    /\ cp_config = [publisher |-> "db", repository |-> TRUE]
    /\ cp_aggregation = NoAggregation
    /\ cp_slug = <<>>
    /\ lookups = <<>>
    /\ selected_item = Nil
    /\ cp_draft = Nil
    /\ cp_edited = Nil
    /\ cp_errors = <<>>
    /\ cp_warnings = <<>>
    /\ cp_result = Nil
    /\ cp_raised = None
    /\ summarize_calls = <<>>
    /\ revise_calls = <<>>
    /\ cp_publish_calls = <<>>
    /\ stage_log = <<>>

\* ------------------------------------------------------------------------
\* PubSpec: sequences of TipPublisher.publish calls on an initially empty
\* repository
\* ------------------------------------------------------------------------
PubTitles == {<<"a">>, <<"A", " ">>}
PubBodies == {<<" ">>, <<"b">>, <<" ", "B">>}
PubTagLists == {<<>>, << <<"x">>, <<"y">> >>, << <<"y", " ">>, <<"x">>, <<" ">> >>}
PubDrafts == [title : PubTitles, body : PubBodies, tags : PubTagLists]

PubInit ==
    /\ tips = <<>>
    /\ save_calls = 0
    /\ publish_log = <<>>
    /\ RunIdle
    /\ GatherIdle
    /\ ArticlesIdle
    /\ ContentIdle

Publish(d) ==
    /\ Len(publish_log) < MaxPublishCalls
    /\ \E o \in publish(tips, d, NoDate, FALSE) :
        /\ tips' = o.tips
        /\ save_calls' = save_calls + o.saves
        /\ publish_log' = Append(publish_log,
               [draft |-> d,
                had_equivalent |-> \E t \in Rows(tips) : matches(t, with_defaults(d)),
                raised |-> o.raised,
                created |-> o.created,
                tip |-> o.tip,
                saves |-> o.saves])
    /\ UNCHANGED run_vars
    /\ UNCHANGED agg_vars
    /\ UNCHANGED content_vars

PubNext == \E d \in PubDrafts : Publish(d)

PubSpec == PubInit /\ [][PubNext]_vars

\* ------------------------------------------------------------------------
\* TipPipeline.run
\* ------------------------------------------------------------------------
Aggregations ==
    {[items |-> <<>>, errors |-> <<"Feed timeout">>],
     [items |-> <<"item-1">>, errors |-> <<"Feed A failed", "Feed B failed">>]}
PublishedAts == {NoDate, 1}
LookupExcs == {"db locked"}
GeneratorExcs == {"model offline"}
EditorExcs == {"review timeout"}

DraftMove == [title |-> <<"a">>, body |-> <<"b", " ">>, tags |-> << <<"x">> >>]
DraftUntitled == [title |-> <<>>, body |-> <<"B">>, tags |-> <<>>]
DraftBlank == [title |-> <<"a">>, body |-> <<" ">>, tags |-> <<>>]
RevisedMove == [title |-> <<"a">>, body |-> <<"b">>, tags |-> << <<"x">> >>]
RevisedBlank == [title |-> <<"a">>, body |-> <<>>, tags |-> <<>>]

GeneratorReturns == {DraftBlank, DraftMove, DraftUntitled}
TipReviewResult(a, f, d) == [is_approved |-> a, feedback |-> f, revised_draft |-> d]
ReviewResults ==
    {TipReviewResult(TRUE, None, Nil),
     TipReviewResult(TRUE, "minor edits", RevisedMove),
     TipReviewResult(TRUE, "", RevisedBlank),
     TipReviewResult(FALSE, None, Nil),
     TipReviewResult(FALSE, "", Nil),
     TipReviewResult(FALSE, "too generic", RevisedMove)}

\* ORDER BY published_date DESC, created_at DESC LIMIT ?
RECURSIVE latest_first(_)
latest_first(rows) ==
    IF rows = {} THEN <<>>
    ELSE LET top == CHOOSE t \in rows :
                 \A u \in rows :
                     \/ t.published_date > u.published_date
                     \/ t.published_date = u.published_date /\ t.id >= u.id
         IN <<top>> \o latest_first(rows \ {top})

get_latest_tips(repo, limit) ==
    LET ordered == latest_first(Rows(repo))
    IN IF Len(ordered) <= limit THEN ordered ELSE SubSeq(ordered, 1, limit)

TipPipelineResult(a, d, t, p, e, w, n, f) ==
    [aggregation |-> a, draft |-> d, tip |-> t, publication |-> p,
     errors |-> e, warnings |-> w, generation_attempts |-> n,
     editor_feedback |-> f]

succeeded(r) == r.tip # Nil /\ r.errors = <<>>

created(r) == r.publication # Nil /\ r.publication.created

LoopGuardInclusive(a) == a <= MAX_GENERATION_ATTEMPTS

\* while attempt < self.MAX_GENERATION_ATTEMPTS
LoopGuard(a) == a < MAX_GENERATION_ATTEMPTS

\* where control goes after `continue` or the end of the loop body
LoopTarget(a) == IF LoopGuard(a) THEN "generate" ELSE "after"

GeneratorFailedFeedback(exc) ==
    "The previous attempt failed with error '" \o exc
        \o "'. Generate a new, high-quality tip that avoids that issue."

EmptyDraftFeedback ==
    "The generated tip was empty or invalid. Produce a concise title and body "
        \o "with actionable guidance."

ReviewFailedFeedback ==
    "The previous tip could not be reviewed due to an internal error. "
        \o "Propose a fresh tip that strictly follows the rubric."

DefaultRejectionFeedback ==
    "The tip was rejected for unspecified reasons. Provide a more novel, concise insight."

\* review_feedback = review_result.feedback or ""
review_feedback(r) == IF r.feedback = None THEN "" ELSE r.feedback

RejectionFeedbackWithoutDefault(r) == review_feedback(r)

\* feedback = review_feedback or "<default>"
RejectionFeedback(r) ==
    IF review_feedback(r) # "" THEN review_feedback(r) ELSE DefaultRejectionFeedback

log_review_only_with_feedback(log, a, r) ==
    IF review_feedback(r) # ""
    THEN Append(log, "Attempt " \o ToString(a) \o " feedback: " \o review_feedback(r))
    ELSE log

\* lines 344-348: the entry a completed review adds to feedback_log
log_review(log, a, r) ==
    IF review_feedback(r) # ""
    THEN Append(log, "Attempt " \o ToString(a) \o " feedback: " \o review_feedback(r))
    ELSE Append(log, "Attempt " \o ToString(a) \o " feedback: (no feedback provided)")

is_approved_truthy(r) == r # Nil

is_approved_ignored(r) == FALSE

\* if review_result.is_approved
is_approved(r) == r.is_approved

is_empty_draft_unstripped(d) == d = Nil \/ d.body = <<>>

\* if not draft or not draft.body.strip()
is_empty_draft(d) == d = Nil \/ Strip(d.body) = <<>>

final_draft_ignoring_revision(r, d) == d

\* final_draft = review_result.revised_draft or draft
final_draft(r, d) == IF r.revised_draft # Nil THEN r.revised_draft ELSE d

ExhaustedMessage ==
    "Failed to generate an approved tip after "
        \o ToString(MAX_GENERATION_ATTEMPTS) \o " attempts."

TipInit ==
    /\ tips = <<>>
    /\ save_calls = 0
    /\ publish_log = <<>>
    /\ RunIdle
    /\ GatherIdle
    /\ ArticlesIdle
    /\ ContentIdle

\* warnings without the aggregation's errors
seed_warnings_empty(agg) == <<>>

\* lines 103 and 272: warnings = list(aggregation.errors)
seed_warnings(agg) == agg.errors

fetch_existing_tips_despite_failure(repo, lookup_exc) ==
    get_latest_tips(repo, LATEST_TIPS_LIMIT)

\* lines 288-292: the tips fetched for comparison, none when the fetch raises
fetch_existing_tips(repo, lookup_exc) ==
    IF lookup_exc # None THEN <<>> ELSE get_latest_tips(repo, LATEST_TIPS_LIMIT)

\* run(), lines 271-298: aggregate, fetch the comparison set, set up the loop
Run_Start(agg, at, lookup_exc) ==
    /\ pc \in {"idle", "done"}
    /\ runs < MaxRuns
    /\ runs' = runs + 1
    /\ aggregation' = agg
    /\ published_at' = at
    /\ errors' = <<>>
    /\ feedback' = None
    /\ draft' = Nil
    /\ review_result' = Nil
    /\ attempt' = 0
    /\ feedback_log' = <<>>
    /\ generate_calls' = <<>>
    /\ review_calls' = <<>>
    /\ publish_calls' = <<>>
    /\ outcomes' = <<>>
    /\ IF agg.items = <<>>
       THEN /\ warnings' = Append(seed_warnings(agg),
                               "No aggregated content available to generate tips.")
            /\ existing_tips' = <<>>
            /\ result' = TipPipelineResult(agg, Nil, Nil, Nil, <<>>, warnings', 0, <<>>)
            /\ pc' = "done"
       ELSE /\ warnings' = IF lookup_exc # None
                           THEN Append(seed_warnings(agg),
                                    "Could not fetch existing tips for comparison: "
                                        \o lookup_exc)
                           ELSE seed_warnings(agg)
            /\ existing_tips' = fetch_existing_tips(tips, lookup_exc)
            /\ result' = Nil
            /\ pc' = LoopTarget(0)
    /\ UNCHANGED <<tips, save_calls, publish_log>>
    /\ UNCHANGED agg_vars
    /\ UNCHANGED content_vars

\* lines 300-322: one generator.generate call and the checks on its draft
Run_Generate(exc, returned) ==
    /\ pc = "generate"
    /\ attempt' = attempt + 1
    /\ generate_calls' = Append(generate_calls,
           [items |-> aggregation.items,
            feedback |-> feedback,
            returned |-> IF exc # None THEN Nil ELSE returned])
    /\ IF exc # None
       THEN /\ errors' = Append(errors,
                   "Tip generator failed on attempt " \o ToString(attempt') \o ": " \o exc)
            /\ feedback' = GeneratorFailedFeedback(exc)
            /\ feedback_log' = Append(feedback_log, errors'[Len(errors')])
            /\ outcomes' = Append(outcomes,
                   [kind |-> "generator_raised", exc |-> exc, draft |-> Nil, review |-> Nil])
            /\ pc' = LoopTarget(attempt')
            /\ UNCHANGED <<draft, warnings>>
       ELSE /\ draft' = returned
            /\ IF is_empty_draft(returned)
               THEN /\ warnings' = Append(warnings,
                           "Generator produced empty draft on attempt "
                               \o ToString(attempt') \o ".")
                    /\ feedback' = EmptyDraftFeedback
                    /\ feedback_log' = Append(feedback_log, warnings'[Len(warnings')])
                    /\ outcomes' = Append(outcomes,
                           [kind |-> "empty_draft", exc |-> None,
                            draft |-> returned, review |-> Nil])
                    /\ pc' = LoopTarget(attempt')
                    /\ UNCHANGED errors
               ELSE /\ pc' = "review"
                    /\ UNCHANGED <<errors, warnings, feedback, feedback_log, outcomes>>
    /\ UNCHANGED <<tips, save_calls, publish_log, runs, aggregation, published_at,
                   existing_tips, review_result, result, review_calls, publish_calls>>
    /\ UNCHANGED agg_vars
    /\ UNCHANGED content_vars

\* lines 331-360: one editor.review call and the handling of its verdict
Run_Review(exc, r) ==
    /\ pc = "review"
    /\ review_calls' = Append(review_calls,
           [draft |-> draft, existing_tips |-> existing_tips])
    /\ IF exc # None
       THEN /\ errors' = Append(errors,
                   "Tip editor failed on attempt " \o ToString(attempt) \o ": " \o exc)
            /\ feedback' = ReviewFailedFeedback
            /\ feedback_log' = Append(feedback_log, errors'[Len(errors')])
            /\ review_result' = Nil
            /\ outcomes' = Append(outcomes,
                   [kind |-> "review_raised", exc |-> exc, draft |-> draft, review |-> Nil])
            /\ pc' = LoopTarget(attempt)
            /\ UNCHANGED warnings
       ELSE /\ feedback_log' = log_review(feedback_log, attempt, r)
            /\ outcomes' = Append(outcomes,
                   [kind |-> IF r.is_approved THEN "approved" ELSE "rejected",
                    exc |-> None, draft |-> draft, review |-> r])
            /\ IF is_approved(r)
               THEN /\ review_result' = r
                    /\ pc' = "after"
                    /\ UNCHANGED <<feedback, warnings>>
               ELSE /\ feedback' = RejectionFeedback(r)
                    /\ warnings' = Append(warnings,
                           "Tip draft rejected (Attempt " \o ToString(attempt) \o "/"
                               \o ToString(MAX_GENERATION_ATTEMPTS) \o "): " \o feedback')
                    /\ review_result' = Nil
                    /\ pc' = LoopTarget(attempt)
            /\ UNCHANGED errors
    /\ UNCHANGED <<tips, save_calls, publish_log, runs, aggregation, published_at,
                   existing_tips, draft, attempt, result, generate_calls, publish_calls>>
    /\ UNCHANGED agg_vars
    /\ UNCHANGED content_vars

publisher_failure_result_with_generated_draft(agg, generated, final, errs, warns, n, f) ==
    TipPipelineResult(agg, generated, Nil, Nil, errs, warns, n, f)

\* lines 395-404: the result returned when publisher.publish raised
publisher_failure_result(agg, generated, final, errs, warns, n, f) ==
    TipPipelineResult(agg, final, Nil, Nil, errs, warns, n, f)

\* lines 362-419: give up, or publish the approved draft and build the result
Run_Finish(repo_fails) ==
    /\ pc = "after"
    /\ pc' = "done"
    /\ IF review_result = Nil \/ ~is_approved(review_result)
       THEN /\ errors' = Append(errors, ExhaustedMessage)
            /\ result' = TipPipelineResult(aggregation, draft, Nil, Nil, errors',
                                           warnings, attempt, feedback_log)
            /\ UNCHANGED <<tips, save_calls, warnings, publish_calls>>
       ELSE IF final_draft(review_result, draft) = Nil
       THEN /\ errors' = Append(errors,
                   "Editor approved review result but no draft was available.")
            /\ result' = TipPipelineResult(aggregation, draft, Nil, Nil, errors',
                                           warnings, attempt, feedback_log)
            /\ UNCHANGED <<tips, save_calls, warnings, publish_calls>>
       ELSE LET final == final_draft(review_result, draft)
            IN /\ publish_calls' = Append(publish_calls, final)
               /\ \E o \in publish(tips, final, published_at, repo_fails) :
                   /\ tips' = o.tips
                   /\ save_calls' = save_calls + o.saves
                   /\ IF o.raised
                      THEN /\ errors' = Append(errors, "Tip publisher failed: " \o o.exc)
                           /\ result' = publisher_failure_result(aggregation, draft, final,
                                            errors', warnings, attempt, feedback_log)
                           /\ UNCHANGED warnings
                      ELSE /\ warnings' =
                                  IF ~o.created
                                  THEN Append(warnings,
                                           "Tip already exists; skipped creating a duplicate.")
                                  ELSE warnings
                           /\ result' = TipPipelineResult(aggregation, final, o.tip,
                                            [tip |-> o.tip, created |-> o.created],
                                            errors, warnings', attempt, feedback_log)
                           /\ UNCHANGED errors
    /\ UNCHANGED <<publish_log, runs, aggregation, published_at, existing_tips, feedback,
                   draft, review_result, attempt, feedback_log, generate_calls,
                   review_calls, outcomes>>
    /\ UNCHANGED agg_vars
    /\ UNCHANGED content_vars

TipStep ==
    \/ \E exc \in GeneratorExcs \cup {None}, d \in GeneratorReturns :
           Run_Generate(exc, d)
    \/ \E exc \in EditorExcs \cup {None}, r \in ReviewResults :
           Run_Review(exc, r)
    \/ \E repo_fails \in BOOLEAN :
           Run_Finish(repo_fails)

TipNext ==
    \/ \E agg \in Aggregations, at \in PublishedAts, exc \in LookupExcs \cup {None} :
           Run_Start(agg, at, exc)
    \/ TipStep

TipSpec == TipInit /\ [][TipNext]_vars

\* One invocation of run(): it is sequential code, so once it has started
\* each of its steps is eventually taken.
FirstRunNext ==
    \/ \E agg \in Aggregations, at \in PublishedAts, exc \in LookupExcs \cup {None} :
           runs = 0 /\ Run_Start(agg, at, exc)
    \/ TipStep

FairTipSpec == TipInit /\ [][FirstRunNext]_vars /\ WF_vars(TipStep)

\* ------------------------------------------------------------------------
\* AggSpec: one call of LongevityNewsAggregator.gather over two feeds
\* ------------------------------------------------------------------------
Http == <<"h","t","t","p">>
StoryPath == <<"/","p">>
UrlStory == Url(Http, <<"a">>, StoryPath, <<>>, <<>>)
UrlStoryUtm == Url(Http, <<"a">>, StoryPath, << <<UtmPrefix \o <<"s">>, <<"1">> >> >>, <<>>)
UrlStoryGclid == Url(Http, <<"a">>, StoryPath, << << <<"g","c","l","i","d">>, <<"1">> >> >>, <<>>)

FeedEntry(title, link, id, published) ==
    [title |-> title, link |-> link, id |-> id, published |-> published]

EntryGuidOnly == FeedEntry(<<"a">>, NoUrl, <<"b">>, 1)
EntryUtm == FeedEntry(<<"x">>, UrlStoryUtm, <<>>, 2)
EntryStory == FeedEntry(<<"c">>, UrlStory, <<"B", " ">>, 1)
EntryGclid == FeedEntry(<<"k">>, UrlStoryGclid, <<>>, 2)
EntryBare == FeedEntry(<<"A", " ">>, NoUrl, <<>>, NoDate)
EntryBareLower == FeedEntry(<<"a">>, NoUrl, <<>>, NoDate)

EntryPool == {EntryGuidOnly, EntryUtm, EntryStory, EntryGclid, EntryBare, EntryBareLower}

ParsedEntries == UNION {[1..n -> EntryPool] : n \in 0..MaxFeedLen}

Response(kind, parsed, exc) == [kind |-> kind, entries |-> parsed, exc |-> exc]

Responses ==
    {Response("ok", es, "") : es \in ParsedEntries}
        \cup {Response("HTTPError", <<>>, "timeout"),
              Response("Exception", <<>>, "boom"),
              Response("bozo", <<>>, "not well-formed")}

FeedNames == <<"Feed A", "Feed B">>

FeedLists ==
    {[i \in 1..Len(FeedNames) |-> [name |-> FeedNames[i], response |-> r[i]]]
        : r \in [1..Len(FeedNames) -> Responses]}

LimitValues == {-1, 0, 1, DEFAULT_LIMIT_PER_FEED}

AggregationResult(items, errs) == [items |-> items, errors |-> errs]

AggInit ==
    /\ tips = <<>>
    /\ save_calls = 0
    /\ publish_log = <<>>
    /\ RunIdle
    /\ GatherIdle
    /\ ArticlesIdle
    /\ ContentIdle

CurrentIndexes == Indexes(index_by_url, index_by_guid, index_by_signature)

\* where the for-feed loop goes after feed number n
AfterFeed(n) == IF n < Len(feeds) THEN "feed" ELSE "sort"

\* gather(), lines 63-72
Gather_Call ==
    /\ gather_pc = "idle"
    /\ \E fs \in FeedLists, limit \in LimitValues :
           /\ feeds' = fs
           /\ limit_per_feed' = limit
    /\ gather_pc' = "feed"
    /\ feed_no' = 1
    /\ UNCHANGED <<entries, entry_no, collected, feed_errors, index_by_url,
                   index_by_guid, index_by_signature, aggregated, existing_index,
                   gathered, clock, considered, replacements>>
    /\ UNCHANGED <<tips, save_calls, publish_log>>
    /\ UNCHANGED run_vars
    /\ UNCHANGED content_vars

\* lines 74-95: fetch and parse the next feed
Gather_Fetch ==
    /\ gather_pc = "feed"
    /\ LET feed == feeds[feed_no]
           r == feed.response
       IN  IF r.kind \in {"HTTPError", "Exception"}
           THEN IF is_caught(r.kind)
                THEN /\ feed_errors' = Append(feed_errors,
                            IF r.kind = "HTTPError" THEN FetchFailed(feed.name, r.exc)
                            ELSE FetchUnexpected(feed.name, r.exc))
                     /\ gather_pc' = AfterFeed(feed_no)
                     /\ feed_no' = feed_no + 1
                     /\ UNCHANGED <<entries, entry_no>>
                ELSE /\ gather_pc' = "raised"
                     /\ UNCHANGED <<feed_errors, feed_no, entries, entry_no>>
           ELSE IF r.kind = "bozo"
           THEN /\ feed_errors' = Append(feed_errors, ParseFailed(feed.name, r.exc))
                /\ gather_pc' = AfterFeed(feed_no)
                /\ feed_no' = feed_no + 1
                /\ UNCHANGED <<entries, entry_no>>
           ELSE /\ entries' = limited_entries(r.entries, limit_per_feed)
                /\ entry_no' = 1
                /\ IF limited_entries(r.entries, limit_per_feed) = <<>>
                   THEN /\ gather_pc' = AfterFeed(feed_no)
                        /\ feed_no' = feed_no + 1
                   ELSE /\ gather_pc' = "entry"
                        /\ UNCHANGED feed_no
                /\ UNCHANGED feed_errors
    /\ UNCHANGED <<feeds, limit_per_feed, collected, index_by_url, index_by_guid,
                   index_by_signature, aggregated, existing_index, gathered, clock,
                   considered, replacements>>
    /\ UNCHANGED <<tips, save_calls, publish_log>>
    /\ UNCHANGED run_vars
    /\ UNCHANGED content_vars

\* the for-entry loop moves on, or the for-feed loop does
NextEntry ==
    IF entry_no < Len(entries)
    THEN /\ entry_no' = entry_no + 1
         /\ gather_pc' = "entry"
         /\ UNCHANGED feed_no
    ELSE /\ entry_no' = entry_no
         /\ gather_pc' = AfterFeed(feed_no)
         /\ feed_no' = feed_no + 1

\* lines 96-156: build the candidate, look it up, then drop it, start its
\* replacement of the matched item, or append it
Gather_Entry ==
    /\ gather_pc = "entry"
    /\ LET entry == entries[entry_no]
           candidate == from_feed_entry(entry, feeds[feed_no].name, clock)
           found == existing_index_for(CurrentIndexes, normalise_url(candidate.url),
                                       guid_key(candidate), signature_key(candidate))
       IN  /\ clock' = IF entry.published = NoDate THEN clock + 1 ELSE clock
           /\ considered' = Append(considered, [feed |-> feed_no, item |-> candidate])
           /\ IF found # NoIndex
              THEN IF should_replace(collected[found], candidate)
                   THEN /\ aggregated' = candidate
                        /\ existing_index' = found
                        /\ gather_pc' = "remove"
                        /\ UNCHANGED <<collected, feed_no, entry_no>>
                   ELSE /\ NextEntry
                        /\ UNCHANGED <<collected, aggregated, existing_index>>
              ELSE /\ collected' = Append(collected, candidate)
                   /\ aggregated' = candidate
                   /\ existing_index' = Len(collected) + 1
                   /\ gather_pc' = "record"
                   /\ UNCHANGED <<feed_no, entry_no>>
    /\ UNCHANGED <<feeds, limit_per_feed, entries, feed_errors, index_by_url,
                   index_by_guid, index_by_signature, gathered, replacements>>
    /\ UNCHANGED <<tips, save_calls, publish_log>>
    /\ UNCHANGED run_vars
    /\ UNCHANGED content_vars

\* lines 107, 125, 142: _remove_indexes(..., existing)
Gather_RemoveIndexes ==
    /\ gather_pc = "remove"
    /\ LET ix == remove_indexes(CurrentIndexes, collected[existing_index])
       IN  /\ index_by_url' = ix.by_url
           /\ index_by_guid' = ix.by_guid
           /\ index_by_signature' = ix.by_signature
    /\ gather_pc' = "assign"
    /\ UNCHANGED <<feeds, limit_per_feed, feed_no, entries, entry_no, collected,
                   feed_errors, aggregated, existing_index, gathered, clock,
                   considered, replacements>>
    /\ UNCHANGED <<tips, save_calls, publish_log>>
    /\ UNCHANGED run_vars
    /\ UNCHANGED content_vars

\* lines 108, 126, 143: collected[existing_index] = aggregated
Gather_Assign ==
    /\ gather_pc = "assign"
    /\ collected' = [collected EXCEPT ![existing_index] = aggregated]
    /\ replacements' = Append(replacements,
           [existing |-> collected[existing_index], candidate |-> aggregated])
    /\ gather_pc' = "record"
    /\ UNCHANGED <<feeds, limit_per_feed, feed_no, entries, entry_no, feed_errors,
                   index_by_url, index_by_guid, index_by_signature, aggregated,
                   existing_index, gathered, clock, considered>>
    /\ UNCHANGED <<tips, save_calls, publish_log>>
    /\ UNCHANGED run_vars
    /\ UNCHANGED content_vars

\* lines 109-117, 127-135, 144-152, 157-165: _record_indexes(...)
Gather_RecordIndexes ==
    /\ gather_pc = "record"
    /\ LET ix == record_indexes(CurrentIndexes, normalise_url(aggregated.url),
                                guid_key(aggregated), signature_key(aggregated),
                                existing_index)
       IN  /\ index_by_url' = ix.by_url
           /\ index_by_guid' = ix.by_guid
           /\ index_by_signature' = ix.by_signature
    /\ NextEntry
    /\ UNCHANGED <<feeds, limit_per_feed, entries, collected, feed_errors, aggregated,
                   existing_index, gathered, clock, considered, replacements>>
    /\ UNCHANGED <<tips, save_calls, publish_log>>
    /\ UNCHANGED run_vars
    /\ UNCHANGED content_vars

\* lines 167-168: sort in place and return
Gather_Return ==
    /\ gather_pc = "sort"
    /\ collected' = sort_by_published_at(collected)
    /\ gathered' = AggregationResult(sort_by_published_at(collected), feed_errors)
    /\ gather_pc' = "done"
    /\ UNCHANGED <<feeds, limit_per_feed, feed_no, entries, entry_no, feed_errors,
                   index_by_url, index_by_guid, index_by_signature, aggregated,
                   existing_index, clock, considered, replacements>>
    /\ UNCHANGED <<tips, save_calls, publish_log>>
    /\ UNCHANGED run_vars
    /\ UNCHANGED content_vars

AggNext ==
    \/ Gather_Call
    \/ Gather_Fetch
    \/ Gather_Entry
    \/ Gather_RemoveIndexes
    \/ Gather_Assign
    \/ Gather_RecordIndexes
    \/ Gather_Return

AggSpec == AggInit /\ [][AggNext]_vars

\* ------------------------------------------------------------------------
\* Claims about TipPipeline.run (TipSpec, FairTipSpec)
\* ------------------------------------------------------------------------
Kinds == {outcomes[i].kind : i \in 1..Len(outcomes)}

Finished == pc = "done" /\ aggregation.items # <<>>

LastOf(seq) == seq[Len(seq)]

\* C1: publisher.publish is called only when the last executed iteration was
\* approved by the editor (and there are never more than
\* MAX_GENERATION_ATTEMPTS iterations); a run that ends with no approved
\* iteration made MAX_GENERATION_ATTEMPTS attempts, never called publish,
\* returns tip and publication null, and its last error is
\* "Failed to generate an approved tip after 3 attempts."
C1_PublishOnlyWhenApproved ==
    /\ publish_calls # <<>> =>
           /\ outcomes # <<>>
           /\ LastOf(outcomes).kind = "approved"
           /\ Len(outcomes) <= 3
    /\ (Finished /\ "approved" \notin Kinds) =>
           /\ Len(outcomes) = 3
           /\ publish_calls = <<>>
           /\ result.tip = Nil
           /\ result.publication = Nil
           /\ result.errors # <<>>
           /\ LastOf(result.errors) = "Failed to generate an approved tip after 3 attempts."

C1_Witness ==
    /\ Finished
    /\ Kinds = {"rejected"}
    /\ Len(outcomes) = 3
    /\ publish_calls = <<>>
    /\ LastOf(result.errors) = "Failed to generate an approved tip after 3 attempts."

\* C2: when every generator.generate call of a run returned a draft whose
\* body is empty or whitespace, the run made exactly 3 generate calls, no
\* editor.review call and no publisher.publish call, and did not succeed.
AllReturnsBlank ==
    \A i \in 1..Len(generate_calls) :
        /\ generate_calls[i].returned # Nil
        /\ Strip(generate_calls[i].returned.body) = <<>>

C2_EmptyBodiesExhaustAttempts ==
    (Finished /\ AllReturnsBlank) =>
        /\ Len(generate_calls) = 3
        /\ review_calls = <<>>
        /\ publish_calls = <<>>
        /\ ~succeeded(result)

C2_Witness ==
    /\ Finished
    /\ AllReturnsBlank
    /\ Len(generate_calls) = 3
    /\ \A i \in 1..3 : generate_calls[i].returned.body = <<" ">>
    /\ ~succeeded(result)

\* C3: whatever the generator and the editor do on each attempt, a started
\* run reaches its end, it never makes more than 3 generator.generate calls,
\* and the generation_attempts it reports is the number of generate calls
\* made (0 when the aggregation had no items).
C3_AttemptsBounded ==
    /\ Len(generate_calls) <= 3
    /\ pc = "done" =>
           /\ result.generation_attempts = Len(generate_calls)
           /\ aggregation.items = <<>> => result.generation_attempts = 0

C3_TerminatesWithinBudget ==
    /\ [](C3_AttemptsBounded)
    /\ [](pc \in {"generate", "review", "after"} => <>(pc = "done"))

C3_Witness ==
    /\ Finished
    /\ result.generation_attempts = 3
    /\ Len(generate_calls) = 3
    /\ {"generator_raised", "review_raised", "empty_draft"} \subseteq Kinds

\* C4: once the editor approved the draft of iteration k, that iteration is
\* the last one: k generate calls were made, every review call belongs to an
\* iteration up to k, the run reports generation_attempts = k and has called
\* publisher.publish exactly once when it returns.
ReviewedIterations ==
    {i \in 1..Len(outcomes) : outcomes[i].kind \in {"review_raised", "rejected", "approved"}}

C4_ApprovalEndsTheLoop ==
    \A k \in 1..Len(outcomes) :
        outcomes[k].kind = "approved" =>
            /\ Len(outcomes) = k
            /\ Len(generate_calls) = k
            /\ Len(review_calls) = Cardinality(ReviewedIterations)
            /\ pc \in {"after", "done"}
            /\ pc = "after" => publish_calls = <<>>
            /\ pc = "done" =>
                   /\ result.generation_attempts = k
                   /\ Len(publish_calls) = 1

C4_Witness ==
    /\ pc = "done"
    /\ Len(outcomes) = 1
    /\ outcomes[1].kind = "approved"
    /\ Len(generate_calls) = 1
    /\ Len(publish_calls) = 1
    /\ result.generation_attempts = 1

\* C5: the first generate call receives feedback None, and call k+1 receives
\* the value fixed by the outcome of iteration k alone: the editor's feedback
\* text after a rejection with feedback, the default rejection message after
\* a rejection without feedback, and the synthetic message of the failure
\* after a generator exception, an empty draft or a review exception.
ExpectedFeedback(o) ==
    CASE o.kind = "rejected" ->
             IF o.review.feedback \notin {None, ""}
             THEN o.review.feedback
             ELSE "The tip was rejected for unspecified reasons. Provide a more novel, concise insight."
      [] o.kind = "generator_raised" ->
             "The previous attempt failed with error '" \o o.exc
                 \o "'. Generate a new, high-quality tip that avoids that issue."
      [] o.kind = "empty_draft" ->
             "The generated tip was empty or invalid. Produce a concise title and body with actionable guidance."
      [] o.kind = "review_raised" ->
             "The previous tip could not be reviewed due to an internal error. Propose a fresh tip that strictly follows the rubric."
      [] OTHER -> None

C5_FeedbackFromPreviousIteration ==
    \A i \in 1..Len(generate_calls) :
        generate_calls[i].feedback =
            IF i = 1 THEN None ELSE ExpectedFeedback(outcomes[i - 1])

C5_Witness ==
    /\ Len(generate_calls) = 3
    /\ outcomes[1].kind = "rejected"
    /\ outcomes[1].review.feedback = "too generic"
    /\ generate_calls[2].feedback = "too generic"
    /\ outcomes[2].kind = "rejected"
    /\ outcomes[2].review.feedback = None
    /\ generate_calls[3].feedback =
           "The tip was rejected for unspecified reasons. Provide a more novel, concise insight."

\* C6: the draft handed to publisher.publish is the approving review's
\* revised_draft when there is one, and otherwise the draft the generator
\* returned in the approving iteration, never one of an earlier iteration.
C6_PublishesApprovedDraft ==
    publish_calls # <<>> =>
        /\ Len(publish_calls) = 1
        /\ LastOf(outcomes).kind = "approved"
        /\ publish_calls[1] =
               IF LastOf(outcomes).review.revised_draft # Nil
               THEN LastOf(outcomes).review.revised_draft
               ELSE generate_calls[Len(outcomes)].returned

C6_Witness ==
    /\ Len(outcomes) = 2
    /\ generate_calls[1].returned = DraftMove
    /\ outcomes[1].kind = "rejected"
    /\ generate_calls[2].returned = DraftUntitled
    /\ outcomes[2].kind = "approved"
    /\ outcomes[2].review.revised_draft = Nil
    /\ publish_calls = <<DraftUntitled>>

\* C7: every finished iteration has added exactly one feedback_log entry, so
\* every result has as many editor_feedback entries as generation_attempts
\* (two rejections and an approval give 3 and 3).
C7_OneFeedbackEntryPerAttempt ==
    /\ Len(feedback_log) = Len(outcomes)
    /\ pc = "done" => Len(result.editor_feedback) = result.generation_attempts

C7_Witness ==
    /\ pc = "done"
    /\ Len(outcomes) = 3
    /\ outcomes[1].kind = "rejected"
    /\ outcomes[2].kind = "rejected"
    /\ outcomes[3].kind = "approved"
    /\ outcomes[3].review.feedback = None
    /\ result.generation_attempts = 3
    /\ Len(result.editor_feedback) = 3
    /\ result.tip # Nil

\* C10: when publisher.publish returns created=False for the approved draft,
\* the run adds the warning "Tip already exists; skipped creating a
\* duplicate.", returns the existing tip with created false, and counts as
\* succeeded.
C10_DuplicateCountsAsSuccess ==
    (pc = "done" /\ result.publication # Nil /\ ~result.publication.created) =>
        /\ LastOf(result.warnings) = "Tip already exists; skipped creating a duplicate."
        /\ result.tip \in Rows(tips)
        /\ ~created(result)
        /\ succeeded(result)

\* ------------------------------------------------------------------------
\* Claims about TipPublisher.publish (PubSpec)
\* ------------------------------------------------------------------------
SameContent(d1, d2) ==
    /\ d1.title = d2.title
    /\ d1.body = d2.body
    /\ TagSet(d1.tags) = TagSet(d2.tags)

EquivalentTips(t1, t2) ==
    /\ Strip(t1.title) = Strip(t2.title)
    /\ Strip(t1.content_body) = Strip(t2.content_body)
    /\ TagSet(t1.tags) = TagSet(t2.tags)

\* C8: when the repository holds no equivalent tip, two successive publish
\* calls with a draft of identical title, body and tag-set return
\* created=True and then created=False, call save_tip exactly once, and the
\* second call returns the tip stored by the first.
C8_PublishTwiceIsIdempotent ==
    \A i \in 1..(Len(publish_log) - 1) :
        LET first == publish_log[i]
            second == publish_log[i + 1]
        IN (/\ SameContent(first.draft, second.draft)
            /\ ~first.had_equivalent
            /\ ~first.raised)
           => /\ first.created
              /\ ~second.raised
              /\ ~second.created
              /\ first.saves + second.saves = 1
              /\ second.tip = first.tip

\* C9: after any sequence of publish calls the repository never holds two
\* tips with the same trimmed title, trimmed body and tag-set.
C9_NoEquivalentTipsStored ==
    \A i, j \in 1..Len(tips) :
        i # j => ~EquivalentTips(tips[i], tips[j])

\* ------------------------------------------------------------------------
\* Claims about LongevityNewsAggregator.gather (AggSpec)
\* ------------------------------------------------------------------------
Returned == gather_pc = "done"

InLoop == gather_pc \in {"feed", "entry", "remove", "assign", "record", "sort"}

FailingFeeds == {i \in 1..Len(feeds) : feeds[i].response.kind # "ok"}

FailureMessage(feed) ==
    CASE feed.response.kind = "HTTPError" -> FetchFailed(feed.name, feed.response.exc)
      [] feed.response.kind = "Exception" -> FetchUnexpected(feed.name, feed.response.exc)
      [] feed.response.kind = "bozo" -> ParseFailed(feed.name, feed.response.exc)

ExpectedErrors ==
    LET failing == SelectSeq(feeds, LAMBDA f : f.response.kind # "ok")
    IN  [i \in 1..Len(failing) |-> FailureMessage(failing[i])]

ConsideredOf(i) == SelectSeq(considered, LAMBDA c : c.feed = i)

SortedPosition(items, k) ==
    1 + Cardinality({j \in 1..Len(items) : items[j].published_at > items[k].published_at})
      + Cardinality({j \in 1..(k - 1) : items[j].published_at = items[k].published_at})

\* C12: the items gather returns are ordered by published_at descending, and
\* items with equal published_at keep the order of their positions in
\* collected, which is the order in which their stories were first collected.
C12_SortedLatestFirstStable ==
    [][gather_pc = "sort" =>
          /\ Len(gathered'.items) = Len(collected)
          /\ \A k \in 1..Len(collected) :
                 gathered'.items[SortedPosition(collected, k)] = collected[k]
          /\ \A i \in 1..(Len(gathered'.items) - 1) :
                 gathered'.items[i].published_at >= gathered'.items[i + 1].published_at
      ]_vars

\* a returned list with a tie, a strict descent and a replaced item
C12_Witness ==
    /\ Returned
    /\ Len(replacements) > 0
    /\ \E i, j \in 1..(Len(gathered.items) - 1) :
           /\ gathered.items[i].published_at = gathered.items[i + 1].published_at
           /\ gathered.items[i] # gathered.items[i + 1]
           /\ gathered.items[j].published_at > gathered.items[j + 1].published_at

\* the list gather is working on, and after the return the list it returned
Items == IF Returned THEN gathered.items ELSE collected

HasUrl(item) == item.url # NoUrl

\* C13: no two items share a non-empty normalized URL, in collected at every
\* point of gather and in the items it returns: candidates with a URL that
\* is already collected collapse into the one item.
C13_NoTwoItemsShareUrl ==
    \A i, j \in 1..Len(Items) :
        (i # j /\ normalise_url(Items[i].url) # NoUrl)
            => normalise_url(Items[i].url) # normalise_url(Items[j].url)

\* two candidates with the same normalized URL were considered and one item
\* with that URL is returned
C13_Witness ==
    /\ Returned
    /\ \E a, b \in 1..Len(considered) :
           /\ a < b
           /\ HasUrl(considered[a].item)
           /\ considered[a].feed # considered[b].feed
           /\ normalise_url(considered[a].item.url) = normalise_url(considered[b].item.url)
           /\ \E k \in 1..Len(gathered.items) :
                  normalise_url(gathered.items[k].url) = normalise_url(considered[a].item.url)

\* C14: no two items share a non-empty GUID key, in collected at every point
\* of gather and in the items it returns, whatever their URLs are.
C14_NoTwoItemsShareGuid ==
    \A i, j \in 1..Len(Items) :
        (i # j /\ guid_key(Items[i]) # <<>>) => guid_key(Items[i]) # guid_key(Items[j])

\* (lowercased title, second of published_at)
SignatureOf(item) == <<Lower(Strip(item.title)), item.published_at \div TicksPerSecond>>

AllEntriesBare ==
    \A i \in 1..Len(feeds) : \A j \in 1..Len(feeds[i].response.entries) :
        /\ feeds[i].response.entries[j].link = NoUrl
        /\ Strip(feeds[i].response.entries[j].id) = <<>>

\* C15: when no entry of any feed has a URL or a GUID, no two items share
\* the signature (lowercased title, published_at truncated to seconds), in
\* collected at every point of gather and in the items it returns.
C15_BareEntriesCollapseBySignature ==
    AllEntriesBare =>
        \A i, j \in 1..Len(Items) : i # j => SignatureOf(Items[i]) # SignatureOf(Items[j])

\* two bare entries whose titles differ in case and whose instants differ
\* within one second were considered, and one item is returned
C15_Witness ==
    /\ Returned
    /\ AllEntriesBare
    /\ Len(gathered.items) = 1
    /\ \E a, b \in 1..Len(considered) :
           /\ considered[a].item.title # considered[b].item.title
           /\ considered[a].item.published_at # considered[b].item.published_at

MatchByGuid(x, y) == guid_key(x) # <<>> /\ guid_key(x) = guid_key(y)

MatchBySignature(x, y) == SignatureOf(x) = SignatureOf(y)

ItemsWithGuidOf(x) ==
    {k \in 1..Len(gathered.items) : guid_key(gathered.items[k]) = guid_key(x)}

ItemsWithSignatureOf(x) ==
    {k \in 1..Len(gathered.items) : SignatureOf(gathered.items[k]) = SignatureOf(x)}

NeverReplacedByUrlLess ==
    \A r \in 1..Len(replacements) :
        HasUrl(replacements[r].existing) => HasUrl(replacements[r].candidate)

\* C16: no collected item that has a URL is replaced by a candidate without
\* one; and when gather has considered an entry without a URL and an entry
\* with a URL that have the same GUID key, or the same signature, the items
\* it returns hold exactly one item with that GUID key, or that signature,
\* and this item has a URL, in whichever order the two arrived.
C16_UrlWinsOverMissingUrl ==
    /\ NeverReplacedByUrlLess
    /\ Returned =>
        \A a, b \in 1..Len(considered) :
            (~HasUrl(considered[a].item) /\ HasUrl(considered[b].item)) =>
                /\ MatchByGuid(considered[a].item, considered[b].item) =>
                       /\ Cardinality(ItemsWithGuidOf(considered[a].item)) = 1
                       /\ \A k \in ItemsWithGuidOf(considered[a].item) :
                              HasUrl(gathered.items[k])
                /\ MatchBySignature(considered[a].item, considered[b].item) =>
                       /\ Cardinality(ItemsWithSignatureOf(considered[a].item)) = 1
                       /\ \A k \in ItemsWithSignatureOf(considered[a].item) :
                              HasUrl(gathered.items[k])

\* the two URLs are the same text once every utm_* parameter is taken out
DifferOnlyByUtm(u, v) ==
    /\ u # v
    /\ u # NoUrl /\ v # NoUrl
    /\ [u EXCEPT !.query = WithoutUtm(u.query)] = [v EXCEPT !.query = WithoutUtm(v.query)]

\* C17: when the only two entries gather considers have URLs that differ
\* only by utm_* parameters, it returns exactly one item, and its URL is
\* the one of the two that has no utm_* parameter, in either arrival order.
C17_UtmVariantsCollapseToCleanUrl ==
    (/\ Returned
     /\ Len(considered) = 2
     /\ DifferOnlyByUtm(considered[1].item.url, considered[2].item.url))
        => /\ Len(gathered.items) = 1
           /\ \A c \in 1..2 :
                  ~has_tracking(considered[c].item.url)
                      => gathered.items[1].url = considered[c].item.url

\* the entry with utm_* parameters arrived first and was replaced
C17_Witness ==
    /\ Returned
    /\ Len(considered) = 2
    /\ DifferOnlyByUtm(considered[1].item.url, considered[2].item.url)
    /\ has_tracking(considered[1].item.url)
    /\ ~has_tracking(considered[2].item.url)
    /\ Len(replacements) = 1
    /\ gathered.items = <<considered[2].item>>

\* a query key the module's tables name as a tracking parameter
IsTrackingKey(key) ==
    \/ \E prefix \in TRACKING_PARAM_PREFIXES : StartsWith(Lower(key), prefix)
    \/ Lower(key) \in TRACKING_PARAM_NAMES

RECURSIVE WithoutTracking(_)
WithoutTracking(q) ==
    IF q = <<>> THEN <<>>
    ELSE IF IsTrackingKey(Head(q)[1]) THEN WithoutTracking(Tail(q))
    ELSE <<Head(q)>> \o WithoutTracking(Tail(q))

DifferOnlyByTracking(u, v) ==
    /\ u # v
    /\ u # NoUrl /\ v # NoUrl
    /\ [u EXCEPT !.query = WithoutTracking(u.query)]
           = [v EXCEPT !.query = WithoutTracking(v.query)]

\* C18: two URLs that differ only by tracking parameters (utm_*, gclid,
\* fbclid) have the same normalized URL, and when the two entries carrying
\* them are the only ones gather considers it returns one item, whose URL
\* is the one without tracking parameters.
C18_TrackingVariantsShareKey ==
    \A a, b \in 1..Len(considered) :
        DifferOnlyByTracking(considered[a].item.url, considered[b].item.url) =>
            /\ normalise_url(considered[a].item.url) = normalise_url(considered[b].item.url)
            /\ (Returned /\ Len(considered) = 2) =>
                   /\ Len(gathered.items) = 1
                   /\ WithoutTracking(gathered.items[1].url.query) = gathered.items[1].url.query

IndexesConsistent ==
    /\ \A key \in DOMAIN index_by_url :
           /\ index_by_url[key] \in 1..Len(collected)
           /\ normalise_url(collected[index_by_url[key]].url) = key
    /\ \A key \in DOMAIN index_by_guid :
           /\ index_by_guid[key] \in 1..Len(collected)
           /\ guid_key(collected[index_by_guid[key]]) = key
    /\ \A key \in DOMAIN index_by_signature :
           /\ index_by_signature[key] \in 1..Len(collected)
           /\ signature_key(collected[index_by_signature[key]]) = key

\* the replacement written last is in place and its keys are being, or
\* have been, registered
LastReplacementInPlace ==
    /\ replacements # <<>>
    /\ gather_pc = "record"
    /\ collected[existing_index] = replacements[Len(replacements)].candidate

ExpectedCount(i) ==
    IF feeds[i].response.kind # "ok" \/ limit_per_feed <= 0 THEN 0
    ELSE IF limit_per_feed < Len(feeds[i].response.entries) THEN limit_per_feed
    ELSE Len(feeds[i].response.entries)

\* C20: of each feed gather considers the first limit_per_feed entries and
\* no others (none when the limit is zero or negative), whether or not
\* deduplication drops them; the limit bounds each feed, so the returned
\* items are bounded by the number of feeds times the limit and not by the
\* limit itself.
C20_LimitAppliesPerFeed ==
    /\ \A i \in 1..Len(feeds) :
           /\ Len(ConsideredOf(i)) <= ExpectedCount(i)
           /\ \A j \in 1..Len(ConsideredOf(i)) :
                  /\ ConsideredOf(i)[j].item.url = feeds[i].response.entries[j].link
                  /\ ConsideredOf(i)[j].item.raw.id = feeds[i].response.entries[j].id
    /\ Returned =>
           /\ \A i \in 1..Len(feeds) : Len(ConsideredOf(i)) = ExpectedCount(i)
           /\ limit_per_feed <= 0 => gathered.items = <<>>
           /\ limit_per_feed > 0 => Len(gathered.items) <= Len(feeds) * limit_per_feed

\* both feeds hold more entries than the limit, and the result holds more
\* items than the limit: one per feed
C20_Witness ==
    /\ Returned
    /\ limit_per_feed = 1
    /\ \A i \in 1..Len(feeds) : Len(feeds[i].response.entries) > limit_per_feed
    /\ Len(gathered.items) = Len(feeds) * limit_per_feed
    /\ Len(gathered.items) > limit_per_feed

\* ------------------------------------------------------------------------
\* Articles: EditedArticle (models/editor.py), Article (models/content.py),
\* the articles and article_sources tables (sqlite_repo.py) and the two
\* article publishers (publisher.py).  A missing optional text (the
\* disclaimer, an article id not assigned yet) is the empty text: the code
\* tests these fields for truth only.
\* ------------------------------------------------------------------------
SlugChars ==
    {"a","b","c","d","e","f","g","h","i","j","k","l","m","n","o","p","q","r","s",
     "t","u","v","w","x","y","z","0","1","2","3","4","5","6","7","8","9"}

\* _SLUG_PATTERN.sub("-", text): every run of other characters becomes one hyphen
RECURSIVE Hyphenate(_)
Hyphenate(text) ==
    IF text = <<>> THEN <<>>
    ELSE IF Head(text) \in SlugChars THEN <<Head(text)>> \o Hyphenate(Tail(text))
    ELSE IF Len(text) > 1 /\ Head(Tail(text)) \notin SlugChars THEN Hyphenate(Tail(text))
    ELSE <<"-">> \o Hyphenate(Tail(text))

RECURSIVE LStripHyphens(_)
LStripHyphens(text) ==
    IF text = <<>> THEN <<>>
    ELSE IF Head(text) = "-" THEN LStripHyphens(Tail(text)) ELSE text

RECURSIVE RStripHyphens(_)
RStripHyphens(text) ==
    IF text = <<>> THEN <<>>
    ELSE IF text[Len(text)] = "-" THEN RStripHyphens(SubSeq(text, 1, Len(text) - 1))
    ELSE text

ArticleSlug == <<"a","r","t","i","c","l","e">>

slugify(value) ==
    LET normalised == RStripHyphens(LStripHyphens(Hyphenate(Lower(value))))
    IN  IF normalised = <<>> THEN ArticleSlug ELSE normalised

DigitChars == <<"0","1","2","3","4","5","6","7","8","9">>

\* str(n) of a positive integer
RECURSIVE Digits(_)
Digits(n) ==
    IF n < 10 THEN <<DigitChars[n + 1]>>
    ELSE Digits(n \div 10) \o <<DigitChars[(n % 10) + 1]>>

\* f"{base_slug}-{suffix}"
suffixed_slug(base_slug, suffix) == base_slug \o <<"-">> \o Digits(suffix)

EditedArticle(title, summary, body, sources, tags, takeaways, disclaimer) ==
    [title |-> title, summary |-> summary, body |-> body, sources |-> sources,
     tags |-> tags, takeaways |-> takeaways, disclaimer |-> disclaimer]

Article(id, title, summary, content_body, published_date, source_urls, tags) ==
    [id |-> id, title |-> title, summary |-> summary, content_body |-> content_body,
     published_date |-> published_date, source_urls |-> source_urls, tags |-> tags]

BulletChars == {"-", "*"}

RECURSIVE LStripBullets(_)
LStripBullets(text) ==
    IF text = <<>> THEN <<>>
    ELSE IF Head(text) \in BulletChars THEN LStripBullets(Tail(text)) ELSE text

clean_takeaway(value) ==
    IF Strip(value) = <<>> THEN <<>> ELSE Strip(LStripBullets(Strip(value)))

KeyTakeaways == <<"k","e","y"," ","t","a","k","e","a","w","a","y","s">>
TakeawaysHeading == <<"*","*","K","e","y"," ","T","a","k","e","a","w","a","y","s","*","*">>

\* needle in text
Contains(text, needle) ==
    \E i \in 1..(Len(text) - Len(needle) + 1) :
        SubSeq(text, i, i + Len(needle) - 1) = needle

\* separator.join(parts)
RECURSIVE Join(_, _)
Join(parts, separator) ==
    IF parts = <<>> THEN <<>>
    ELSE IF Len(parts) = 1 THEN Head(parts)
    ELSE Head(parts) \o separator \o Join(Tail(parts), separator)

NonEmpty(text) == text # <<>>

bullet_lines(takeaways) ==
    LET cleaned == [i \in 1..Len(takeaways) |-> clean_takeaway(takeaways[i])]
        kept == SelectSeq(cleaned, NonEmpty)
    IN  [i \in 1..Len(kept) |-> <<"-", " ">> \o kept[i]]

to_article(edited) ==
    LET body_text == Strip(edited.body)
        takeaways_section ==
            IF /\ edited.takeaways # <<>>
               /\ bullet_lines(edited.takeaways) # <<>>
               /\ ~Contains(Lower(body_text), KeyTakeaways)
            THEN << TakeawaysHeading \o <<"\n">> \o Join(bullet_lines(edited.takeaways), <<"\n">>) >>
            ELSE <<>>
        disclaimer_section ==
            IF Strip(edited.disclaimer) # <<>>
            THEN << <<">", " ">> \o Strip(edited.disclaimer) >>
            ELSE <<>>
        sections == <<body_text>> \o takeaways_section \o disclaimer_section
    IN  Article(<<>>, Strip(edited.title), Strip(edited.summary),
                Join(SelectSeq(sections, NonEmpty), <<"\n", "\n">>),
                NoDate, edited.sources, edited.tags)

\* _listify_strings on a list of tags: trimmed, empty ones dropped
listify_strings(value) ==
    SelectSeq([i \in 1..Len(value) |-> Strip(value[i])], NonEmpty)

\* _listify_strings on a list of URLs.  The URLs of the model hold no white
\* space, so trimming leaves each as it is; the empty URL is dropped.
listify_urls(value) == SelectSeq(value, LAMBDA url : url # NoUrl)

\* Article.to_document followed by Article.from_document: what a row of the
\* articles table gives back when it is read
from_document(row) ==
    Article(row.id, row.title, row.summary, row.content_body, row.published_date,
            listify_urls(row.source_urls), listify_strings(row.tags))

ArticleIds(rows) == {rows[i].id : i \in 1..Len(rows)}

get_article(rows, article_id) ==
    IF article_id \in ArticleIds(rows)
    THEN from_document(rows[CHOOSE i \in 1..Len(rows) : rows[i].id = article_id])
    ELSE Nil

\* INSERT OR IGNORE of each normalized source URL, in list order, after the
\* rows of the article have been deleted
RECURSIVE index_sources(_, _, _)
index_sources(source_rows, urls, article_id) ==
    IF urls = <<>> THEN source_rows
    ELSE LET norm == normalise_url(Head(urls))
             taken == \E r \in source_rows : r.normalized_url = norm
         IN  index_sources(
                 IF norm = NoUrl \/ taken THEN source_rows
                 ELSE source_rows \cup {[normalized_url |-> norm, article_id |-> article_id]},
                 Tail(urls), article_id)

\* save_article: upsert of the row by id, then the rebuild of its source index.
\* Returns the two tables and the stored article read back.
save_article(rows, source_rows, article) ==
    LET upserted ==
            IF article.id \in ArticleIds(rows)
            THEN [i \in 1..Len(rows) |-> IF rows[i].id = article.id THEN article ELSE rows[i]]
            ELSE Append(rows, article)
        cleared == {r \in source_rows : r.article_id # article.id}
    IN  [articles |-> upserted,
         article_sources |-> index_sources(cleared, article.source_urls, article.id),
         stored |-> get_article(upserted, article.id)]

\* the lookup by the URL as given, not by its normalized form
find_article_by_exact_url(rows, source_rows, url) ==
    IF url # NoUrl /\ \E r \in source_rows : r.normalized_url = url
    THEN get_article(rows, (CHOOSE r \in source_rows : r.normalized_url = url).article_id)
    ELSE Nil

find_article_by_source_url(rows, source_rows, url) ==
    LET norm == normalise_url(url)
    IN  IF norm = NoUrl THEN Nil
        ELSE IF \E r \in source_rows : r.normalized_url = norm
        THEN get_article(rows, (CHOOSE r \in source_rows : r.normalized_url = norm).article_id)
        ELSE Nil

AsSet(list) == {list[i] : i \in 1..Len(list)}

is_duplicate(existing, article) ==
    /\ Strip(existing.title) = Strip(article.title)
    /\ existing.summary = Strip(to_article(article).summary)
    /\ existing.content_body = Strip(to_article(article).content_body)
    /\ AsSet(existing.source_urls) = AsSet(to_article(article).source_urls)
    /\ AsSet(existing.tags) = AsSet(to_article(article).tags)

\* the while loop of _resolve_target from the given suffix on
RECURSIVE resolve_suffix(_, _, _, _)
resolve_suffix(rows, base_slug, article, suffix) ==
    LET slug == suffixed_slug(base_slug, suffix)
        candidate == get_article(rows, slug)
    IN  IF candidate = Nil \/ is_duplicate(candidate, article)
        THEN [slug |-> slug, existing |-> candidate]
        ELSE resolve_suffix(rows, base_slug, article, suffix + 1)

\* the base slug whatever it holds
resolve_target_base_only(rows, base_slug, article) ==
    LET existing == get_article(rows, base_slug)
    IN  [slug |-> base_slug,
         existing |-> IF existing # Nil /\ is_duplicate(existing, article)
                      THEN existing ELSE Nil]

resolve_target(rows, base_slug, article) ==
    LET existing == get_article(rows, base_slug)
    IN  IF existing = Nil \/ is_duplicate(existing, article)
        THEN [slug |-> base_slug, existing |-> existing]
        ELSE resolve_suffix(rows, base_slug, article, 2)

\* PublicationResult; path is the storage path of slug and is left out
PublicationResult(slug, commit_hash, at) ==
    [slug |-> slug, commit_hash |-> commit_hash, published_at |-> at]

NoCommit == 0

\* LocalDBPublisher.publish on the two tables.  save_exc is the exception
\* repository.save_article raises, None when it succeeds; a failed save is
\* rolled back.  saved lists the articles handed to save_article.
LocalDBPublisher_publish(rows, source_rows, article, slug, at, save_exc) ==
    LET published == IF at # NoDate THEN at ELSE NowDate
        base_slug == slugify(IF slug # <<>> THEN slug ELSE article.title)
        \* lines 200-212: the save and the result built from the stored row
        written(article_model, saved) ==
            IF save_exc # None
            THEN [articles |-> rows, article_sources |-> source_rows,
                  saved |-> <<article_model>>, raised |-> save_exc, publication |-> Nil]
            ELSE [articles |-> saved.articles, article_sources |-> saved.article_sources,
                  saved |-> <<article_model>>, raised |-> None,
                  publication |-> PublicationResult(saved.stored.id, NoCommit,
                                                    saved.stored.published_date)]
        \* lines 192-199: the stored article is reused when it is a duplicate
        resolved(target, article_model) ==
            IF target.existing # Nil /\ is_duplicate(target.existing, article)
            THEN [articles |-> rows, article_sources |-> source_rows, saved |-> <<>>,
                  raised |-> None,
                  publication |-> PublicationResult(target.existing.id, NoCommit,
                                                    target.existing.published_date)]
            ELSE written(article_model, save_article(rows, source_rows, article_model))
        with_target(target) ==
            resolved(target, [to_article(article) EXCEPT !.id = target.slug,
                                                         !.published_date = published])
    IN  with_target(resolve_target(rows, base_slug, article))

FileSlugs(files) == {files[i].slug : i \in 1..Len(files)}

\* the while loop of _resolve_destination from the given suffix on
RECURSIVE free_suffix(_, _, _)
free_suffix(files, base_slug, suffix) ==
    IF suffixed_slug(base_slug, suffix) \in FileSlugs(files)
    THEN free_suffix(files, base_slug, suffix + 1)
    ELSE suffixed_slug(base_slug, suffix)

\* the destination without the search for a free path
resolve_destination_without_suffix(files, base_slug) == base_slug

resolve_destination(files, base_slug) ==
    IF base_slug \in FileSlugs(files) THEN free_suffix(files, base_slug, 2) ELSE base_slug

AddArticlePrefix == <<"A","d","d"," ","a","r","t","i","c","l","e",":"," ">>

\* the Markdown payload: the front matter as a record, then the body
markdown(article, article_model, published) ==
    [title |-> article_model.title, summary |-> article_model.summary,
     published_at |-> published, tags |-> article_model.tags,
     sources |-> article_model.source_urls, takeaways |-> article.takeaways,
     disclaimer |-> article.disclaimer, body |-> Strip(article_model.content_body)]

RepoMissing == "Repository path does not exist"

\* GitPublisher.publish on the files and commits of the repository.
\* repo_exists is whether repo_path exists, git_exc the failure of git commit
\* (None when it succeeds): the file is written before git runs.
GitPublisher_publish(files, commits, article, slug, commit_message, at, repo_exists, git_exc) ==
    LET article_model == to_article(article)
        published == IF at # NoDate THEN at ELSE NowDate
        base_slug == slugify(IF slug # <<>> THEN slug ELSE article_model.title)
        final_slug == resolve_destination(files, base_slug)
        written == Append(files, [slug |-> final_slug,
                                  payload |-> markdown(article, article_model, published)])
        message == IF commit_message # <<>> THEN commit_message
                   ELSE AddArticlePrefix \o article_model.title
    IN  IF ~repo_exists
        THEN [files |-> files, commits |-> commits, raised |-> RepoMissing,
              publication |-> Nil]
        ELSE IF git_exc # None
        THEN [files |-> written, commits |-> commits, raised |-> git_exc,
              publication |-> Nil]
        ELSE [files |-> written, commits |-> Append(commits, message), raised |-> None,
              publication |-> PublicationResult(final_slug, Len(commits) + 1, published)]

\* ------------------------------------------------------------------------
\* ArticlePubSpec: sequences of LocalDBPublisher.publish calls on an
\* initially empty repository, or of GitPublisher.publish calls on an
\* initially empty content directory
\* ------------------------------------------------------------------------
UrlOther == Url(Http, <<"a">>, <<"/","q">>, <<>>, <<>>)

ArtPlain ==
    EditedArticle(<<"a">>, <<"s">>, <<"b">>, <<UrlStory>>, << <<"x">> >>, <<>>, <<>>)
\* the same article with white space around its title, summary and body
ArtPadded ==
    EditedArticle(<<"a", " ">>, <<" ", "s">>, <<"b", " ">>, <<UrlStory>>, << <<"x">> >>,
                  <<>>, <<>>)
\* the same article with white space after its tag
ArtTagPadded ==
    EditedArticle(<<"a">>, <<"s">>, <<"b">>, <<UrlStory>>, << <<"x", " ">> >>, <<>>, <<>>)
ArtOtherBody ==
    EditedArticle(<<"a">>, <<"s">>, <<"c">>, <<UrlOther>>, << <<"x">> >>, <<>>, <<>>)
ArtTakeaways ==
    EditedArticle(<<"a">>, <<"s">>, <<"b">>, <<UrlStory>>, << <<"x">> >>,
                  << <<"-", " ", "k">> >>, <<"d">>)

PubArticles == {ArtPlain, ArtPadded, ArtTagPadded, ArtOtherBody, ArtTakeaways}
GitArticles == {ArtPlain, ArtPadded, ArtOtherBody}
PubSlugs == {<<>>, <<"A", "!">>}
SaveFailed == "database is locked"
GitFailed == "git commit failed"

ArticlePubInit ==
    /\ tips = <<>>
    /\ save_calls = 0
    /\ publish_log = <<>>
    /\ RunIdle
    /\ GatherIdle
    /\ ArticlesIdle
    /\ ContentIdle

Db_Publish ==
    /\ git_log = <<>>
    /\ Len(article_log) < MaxPublishCalls
    /\ \E article \in PubArticles, slug \in PubSlugs, save_exc \in {None, SaveFailed} :
        \E o \in {LocalDBPublisher_publish(articles, article_sources, article, slug,
                                           NoDate, save_exc)} :
            /\ articles' = o.articles
            /\ article_sources' = o.article_sources
            /\ save_article_calls' = save_article_calls \o o.saved
            /\ article_log' = Append(article_log,
                   [article |-> article, slug |-> slug, before |-> articles,
                    saved |-> o.saved, raised |-> o.raised,
                    publication |-> o.publication])
    /\ UNCHANGED <<git_files, git_commits, git_log>>
    /\ UNCHANGED <<tips, save_calls, publish_log>>
    /\ UNCHANGED <<run_vars, agg_vars, cp_vars>>

Git_Publish ==
    /\ article_log = <<>>
    /\ Len(git_log) < MaxPublishCalls
    /\ \E article \in GitArticles, slug \in PubSlugs, repo_exists \in BOOLEAN,
          git_exc \in {None, GitFailed} :
        \E o \in {GitPublisher_publish(git_files, git_commits, article, slug, <<>>,
                                       NoDate, repo_exists, git_exc)} :
            /\ git_files' = o.files
            /\ git_commits' = o.commits
            /\ git_log' = Append(git_log,
                   [article |-> article, slug |-> slug, before |-> git_files,
                    raised |-> o.raised, publication |-> o.publication])
    /\ UNCHANGED <<articles, article_sources, save_article_calls, article_log>>
    /\ UNCHANGED <<tips, save_calls, publish_log>>
    /\ UNCHANGED <<run_vars, agg_vars, cp_vars>>

ArticlePubNext == Db_Publish \/ Git_Publish

ArticlePubSpec == ArticlePubInit /\ [][ArticlePubNext]_vars

\* ------------------------------------------------------------------------
\* ContentPipeline.run (pipeline.py) with the collaborators run_pipeline.py
\* builds: SummarizerAgent and EditorAgent over a language model whose
\* answers are inputs, and LocalDBPublisher or GitPublisher as publisher
\* ------------------------------------------------------------------------
ArticleDraft(title, summary, body, takeaways, sources, tags) ==
    [title |-> title, summary |-> summary, body |-> body, takeaways |-> takeaways,
     sources |-> sources, tags |-> tags]

DefaultDraftTitle ==
    <<"L","o","n","g","e","v","i","t","y"," ","I","n","s","i","g","h","t","s">>
SUMMARY_FALLBACK_LENGTH == 160

\* the first occurrence of each value, in order
RECURSIVE Unique(_)
Unique(list) ==
    IF list = <<>> THEN <<>>
    ELSE LET rest == Unique(SubSeq(list, 1, Len(list) - 1))
             last == list[Len(list)]
         IN  IF last \in AsSet(rest) THEN rest ELSE Append(rest, last)

merge_unique(primary, secondary) == Unique(listify_strings(primary \o secondary))

merge_sources(primary, secondary) == Unique(listify_urls(primary \o secondary))

draft_with_defaults(d) ==
    ArticleDraft(IF Strip(d.title) # <<>> THEN Strip(d.title) ELSE DefaultDraftTitle,
                 IF Strip(d.summary) # <<>> THEN Strip(d.summary)
                 ELSE Strip(SubSeq(d.body, 1, IF Len(d.body) < SUMMARY_FALLBACK_LENGTH
                                              THEN Len(d.body) ELSE SUMMARY_FALLBACK_LENGTH)),
                 Strip(d.body),
                 listify_strings(d.takeaways),
                 listify_urls(d.sources),
                 listify_strings(d.tags))

\* SummarizerContext.from_aggregated(items).source_urls
context_source_urls(items) ==
    LET urls == [i \in 1..Len(items) |-> items[i].url]
    IN  SelectSeq(urls, LAMBDA url : url # NoUrl)

\* SummarizerAgent.summarize, payload being the parsed answer of the model
summarize(items, payload) ==
    draft_with_defaults(
        ArticleDraft(payload.title, payload.summary, payload.body, payload.takeaways,
                     merge_sources(context_source_urls(items), payload.sources),
                     payload.tags))

Or(value, fallback) == IF value # <<>> THEN value ELSE fallback

normalised(edited, d) ==
    EditedArticle(Strip(Or(edited.title, d.title)),
                  Strip(Or(edited.summary, d.summary)),
                  Strip(Or(edited.body, d.body)),
                  merge_sources(d.sources, edited.sources),
                  merge_unique(d.tags, edited.tags),
                  merge_unique(d.takeaways, edited.takeaways),
                  Strip(edited.disclaimer))

\* EditorAgent.revise, data being the parsed answer of the model with the
\* keys it left out already filled from the draft
revise(d, data) ==
    normalised(EditedArticle(data.title, data.summary, data.body, data.sources,
                             data.tags, data.takeaways, data.disclaimer), d)

\* urlunparse of the parts
RECURSIVE QueryText(_)
QueryText(q) ==
    IF q = <<>> THEN <<>>
    ELSE Head(q)[1] \o <<"=">> \o Head(q)[2]
         \o (IF Tail(q) = <<>> THEN <<>> ELSE <<"&">> \o QueryText(Tail(q)))

UrlText(url) ==
       (IF url.scheme = <<>> THEN <<>> ELSE url.scheme \o <<":">>)
    \o (IF url.netloc = <<>> THEN <<>> ELSE <<"/", "/">> \o url.netloc)
    \o url.path
    \o (IF url.query = <<>> THEN <<>> ELSE <<"?">> \o QueryText(url.query))
    \o (IF url.fragment = <<>> THEN <<>> ELSE <<"#">> \o url.fragment)

\* a result that leaves the draft out
PipelineResult_without_draft(agg, d, edited, publication, errs, warns) ==
    [aggregation |-> agg, draft |-> Nil, edited |-> edited, publication |-> publication,
     errors |-> errs, warnings |-> warns]

PipelineResult(agg, d, edited, publication, errs, warns) ==
    [aggregation |-> agg, draft |-> d, edited |-> edited, publication |-> publication,
     errors |-> errs, warnings |-> warns]

article_succeeded(r) == r.publication # Nil /\ r.errors = <<>>

NothingToSummarise == "No aggregated content available to summarise."
NothingNew == "No new aggregated content available to publish."
SummarizerFailedPrefix == "Summarizer failed: "
EditorFailedPrefix == "Editor failed: "

\* whether ContentPipeline.run looks items up: self.repository, else the
\* repository attribute of the publisher, which LocalDBPublisher has
has_repository(config) == config.repository \/ config.publisher = "db"

no_selection_warning_always_new(items) == NothingNew

no_selection_warning(items) == IF items # <<>> THEN NothingNew ELSE NothingToSummarise

\* the for loop over aggregation.items with a repository: the lookups made,
\* the item selected and the exception a lookup raised.  raising_url is the
\* URL the repository fails on, NoUrl when it never fails.
RECURSIVE select_new_item(_, _, _, _, _)
select_new_item(items, rows, source_rows, raising_url, done) ==
    IF items = <<>> THEN [lookups |-> done, selected |-> Nil, raised |-> None]
    ELSE LET item == Head(items)
             found == find_article_by_source_url(rows, source_rows, item.url)
         IN  IF item.url = NoUrl
             THEN select_new_item(Tail(items), rows, source_rows, raising_url, done)
             ELSE IF item.url = raising_url
             THEN [lookups |-> Append(done, [url |-> item.url, found |-> Nil]),
                   selected |-> Nil, raised |-> "lookup failed"]
             ELSE IF found = Nil
             THEN [lookups |-> Append(done, [url |-> item.url, found |-> Nil]),
                   selected |-> item, raised |-> None]
             ELSE select_new_item(Tail(items), rows, source_rows, raising_url,
                                  Append(done, [url |-> item.url, found |-> found]))

\* the for loop without a repository: the first item with a URL
select_first_item(items) ==
    IF \E i \in 1..Len(items) : items[i].url # NoUrl
    THEN items[CHOOSE i \in 1..Len(items) :
                   /\ items[i].url # NoUrl
                   /\ \A j \in 1..(i - 1) : items[j].url = NoUrl]
    ELSE Nil

select_item_without_lookup(config, items, rows, source_rows, raising_url) ==
    [lookups |-> <<>>, selected |-> select_first_item(items), raised |-> None]

select_item(config, items, rows, source_rows, raising_url) ==
    IF has_repository(config)
    THEN select_new_item(items, rows, source_rows, raising_url, <<>>)
    ELSE [lookups |-> <<>>, selected |-> select_first_item(items), raised |-> None]

slug_to_use(slug, item) ==
    IF slug # <<>> THEN slug
    ELSE slugify(IF item.title # <<>> THEN item.title ELSE UrlText(item.url))

\* line 169 of pipeline.py, errors.append(f"Publisher failed: {exc}"), is
\* commented out: a publisher failure is logged and errors stays as it was
errors_after_publisher_failure(errs, exc) == errs

run_catches_generation_only(stage) == stage # "publish"

\* lines 137, 150 and 167: each collaborator call sits in a try block of its
\* own whose except clause takes every Exception
run_catches(stage) == TRUE

stage_error_without_detail(prefix, exc) == prefix

\* f"Summarizer failed: {exc}" and f"Editor failed: {exc}"
stage_error(prefix, exc) == prefix \o exc

\* a collaborator call of the run: the exception it raised, None when it
\* returned, and what it returned
StageCall(stage, raised, returned) ==
    [stage |-> stage, raised |-> raised, returned |-> returned]

\* ------------------------------------------------------------------------
\* ContentSpec: runs of ContentPipeline.run, one after the other, on an
\* initially empty repository and content directory
\* ------------------------------------------------------------------------
EntryOther == FeedEntry(<<"q">>, UrlOther, <<>>, 2)

ItemStory == from_feed_entry(EntryStory, "Feed A", FirstNow)
ItemUtm == from_feed_entry(EntryUtm, "Feed A", FirstNow)
ItemOther == from_feed_entry(EntryOther, "Feed B", FirstNow)
ItemNoUrl == from_feed_entry(EntryGuidOnly, "Feed B", FirstNow)

ContentItemLists ==
    {<<>>, <<ItemNoUrl>>, <<ItemStory>>, <<ItemNoUrl, ItemStory, ItemOther, ItemUtm>>,
     <<ItemUtm, ItemOther>>, <<ItemStory, ItemUtm>>}
ContentFeedErrors == <<"Feed B: timeout">>
ContentAggregations ==
    {AggregationResult(items, <<>>) : items \in ContentItemLists}
    \cup {AggregationResult(items, ContentFeedErrors) : items \in {<<>>, <<ItemStory>>}}
RunSlugs == {<<>>, <<"A", "!">>}
Configs ==
    {[publisher |-> "db", repository |-> TRUE], [publisher |-> "db", repository |-> FALSE],
     [publisher |-> "git", repository |-> FALSE]}
RaisingUrls == {NoUrl, UrlOther}
SummarizerFailed == "model offline"
EditorFailed == "invalid answer"

SummaryPayloads ==
    {[title |-> <<"a">>, summary |-> <<>>, body |-> <<"b", " ">>, takeaways |-> <<>>,
      sources |-> <<>>, tags |-> << <<"x", " ">> >>]}

\* the answers of the editor's model: the draft as it is, or a new tag and a
\* disclaimer with the body left out
EditorAnswers(d) ==
    {[title |-> d.title, summary |-> d.summary, body |-> d.body, sources |-> d.sources,
      tags |-> d.tags, takeaways |-> d.takeaways, disclaimer |-> <<>>],
     [title |-> d.title, summary |-> d.summary, body |-> <<>>, sources |-> d.sources,
      tags |-> << <<"y">>, <<" ">> >>, takeaways |-> d.takeaways,
      disclaimer |-> <<"d", " ">>]}

ContentInit ==
    /\ tips = <<>>
    /\ save_calls = 0
    /\ publish_log = <<>>
    /\ RunIdle
    /\ GatherIdle
    /\ ArticlesIdle
    /\ ContentIdle

\* lines 102-133: gather, the selection of the item, the return when there
\* is none
Content_Start ==
    /\ cp_pc = "idle"
    /\ cp_runs < MaxRuns
    /\ \E agg \in ContentAggregations, slug \in RunSlugs, config \in Configs,
          raising_url \in RaisingUrls :
        \E sel \in {select_item(config, agg.items, articles, article_sources,
                                 raising_url)} :
        \E warns \in {IF sel.raised = None /\ sel.selected = Nil
                      THEN Append(seed_warnings(agg), no_selection_warning(agg.items))
                      ELSE seed_warnings(agg)} :
            /\ cp_config' = config
            /\ cp_aggregation' = agg
            /\ cp_slug' = slug
            /\ lookups' = sel.lookups
            /\ selected_item' = sel.selected
            /\ cp_raised' = sel.raised
            /\ cp_warnings' = warns
            /\ cp_result' = IF sel.raised = None /\ sel.selected = Nil
                            THEN PipelineResult(agg, Nil, Nil, Nil, <<>>, warns)
                            ELSE Nil
            /\ cp_pc' = IF sel.raised = None /\ sel.selected # Nil
                        THEN "summarize" ELSE "idle"
    /\ cp_runs' = cp_runs + 1
    /\ cp_draft' = Nil
    /\ cp_edited' = Nil
    /\ cp_errors' = <<>>
    /\ summarize_calls' = <<>>
    /\ revise_calls' = <<>>
    /\ cp_publish_calls' = <<>>
    /\ stage_log' = <<>>
    /\ UNCHANGED art_vars
    /\ UNCHANGED <<tips, save_calls, publish_log>>
    /\ UNCHANGED <<run_vars, agg_vars>>

\* lines 135-147
Content_Summarize ==
    /\ cp_pc = "summarize"
    /\ summarize_calls' = Append(summarize_calls, <<selected_item>>)
    /\ \E exc \in {None, SummarizerFailed}, payload \in SummaryPayloads :
        IF exc # None /\ ~run_catches("summarize")
        THEN /\ cp_raised' = exc
             /\ stage_log' = Append(stage_log, StageCall("summarize", exc, Nil))
             /\ cp_pc' = "idle"
             /\ UNCHANGED <<cp_errors, cp_result, cp_draft>>
        ELSE IF exc # None
        THEN /\ cp_errors' = Append(cp_errors, stage_error(SummarizerFailedPrefix, exc))
             /\ stage_log' = Append(stage_log, StageCall("summarize", exc, Nil))
             /\ cp_result' = PipelineResult(cp_aggregation, Nil, Nil, Nil, cp_errors',
                                            cp_warnings)
             /\ cp_pc' = "idle"
             /\ UNCHANGED <<cp_draft, cp_raised>>
        ELSE /\ cp_draft' = summarize(<<selected_item>>, payload)
             /\ stage_log' = Append(stage_log, StageCall("summarize", None, cp_draft'))
             /\ cp_pc' = "revise"
             /\ UNCHANGED <<cp_errors, cp_result, cp_raised>>
    /\ UNCHANGED <<cp_runs, cp_config, cp_aggregation, cp_slug, lookups, selected_item,
                   cp_edited, cp_warnings, revise_calls, cp_publish_calls>>
    /\ UNCHANGED art_vars
    /\ UNCHANGED <<tips, save_calls, publish_log>>
    /\ UNCHANGED <<run_vars, agg_vars>>

\* lines 148-159
Content_Revise ==
    /\ cp_pc = "revise"
    /\ revise_calls' = Append(revise_calls, cp_draft)
    /\ \E exc \in {None, EditorFailed}, data \in EditorAnswers(cp_draft) :
        IF exc # None /\ ~run_catches("revise")
        THEN /\ cp_raised' = exc
             /\ stage_log' = Append(stage_log, StageCall("revise", exc, Nil))
             /\ cp_pc' = "idle"
             /\ UNCHANGED <<cp_errors, cp_result, cp_edited>>
        ELSE IF exc # None
        THEN /\ cp_errors' = Append(cp_errors, stage_error(EditorFailedPrefix, exc))
             /\ stage_log' = Append(stage_log, StageCall("revise", exc, Nil))
             /\ cp_result' = PipelineResult(cp_aggregation, cp_draft, Nil, Nil, cp_errors',
                                            cp_warnings)
             /\ cp_pc' = "idle"
             /\ UNCHANGED <<cp_edited, cp_raised>>
        ELSE /\ cp_edited' = revise(cp_draft, data)
             /\ stage_log' = Append(stage_log, StageCall("revise", None, cp_edited'))
             /\ cp_pc' = "publish"
             /\ UNCHANGED <<cp_errors, cp_result, cp_raised>>
    /\ UNCHANGED <<cp_runs, cp_config, cp_aggregation, cp_slug, lookups, selected_item,
                   cp_draft, cp_warnings, summarize_calls, cp_publish_calls>>
    /\ UNCHANGED art_vars
    /\ UNCHANGED <<tips, save_calls, publish_log>>
    /\ UNCHANGED <<run_vars, agg_vars>>

\* lines 160-187: the publisher call and the two returns after it
Content_Publish ==
    /\ cp_pc = "publish"
    /\ \E fails \in BOOLEAN :
        \E slug \in {slug_to_use(cp_slug, selected_item)} :
        \E db \in {LocalDBPublisher_publish(articles, article_sources, cp_edited, slug,
                                            NoDate, IF fails THEN SaveFailed ELSE None)},
           git \in {GitPublisher_publish(git_files, git_commits, cp_edited, slug, <<>>,
                                         NoDate, TRUE, IF fails THEN GitFailed ELSE None)} :
        \E o \in {IF cp_config.publisher = "db" THEN db ELSE git} :
            /\ IF cp_config.publisher = "db"
               THEN /\ articles' = db.articles
                    /\ article_sources' = db.article_sources
                    /\ save_article_calls' = save_article_calls \o db.saved
                    /\ UNCHANGED <<git_files, git_commits>>
               ELSE /\ git_files' = git.files
                    /\ git_commits' = git.commits
                    /\ UNCHANGED <<articles, article_sources, save_article_calls>>
            /\ cp_publish_calls' = Append(cp_publish_calls,
                   [article |-> cp_edited, slug |-> slug, raised |-> o.raised])
            /\ stage_log' = Append(stage_log, StageCall("publish", o.raised, o.publication))
            /\ IF o.raised # None /\ ~run_catches("publish")
               THEN /\ cp_raised' = o.raised
                    /\ UNCHANGED <<cp_errors, cp_result>>
               ELSE /\ cp_errors' = IF o.raised # None
                                    THEN errors_after_publisher_failure(cp_errors, o.raised)
                                    ELSE cp_errors
                    /\ cp_result' = PipelineResult(cp_aggregation, cp_draft, cp_edited,
                                                   o.publication, cp_errors', cp_warnings)
                    /\ UNCHANGED cp_raised
    /\ cp_pc' = "idle"
    /\ UNCHANGED <<cp_runs, cp_config, cp_aggregation, cp_slug, lookups, selected_item,
                   cp_draft, cp_edited, cp_warnings, summarize_calls, revise_calls>>
    /\ UNCHANGED <<article_log, git_log>>
    /\ UNCHANGED <<tips, save_calls, publish_log>>
    /\ UNCHANGED <<run_vars, agg_vars>>

ContentNext ==
    \/ Content_Start
    \/ Content_Summarize
    \/ Content_Revise
    \/ Content_Publish

ContentSpec == ContentInit /\ [][ContentNext]_vars

\* ------------------------------------------------------------------------
\* Claims about ContentPipeline.run (ContentSpec)
\* ------------------------------------------------------------------------
\* a run has started and none of its lookups raised
RunSelected == cp_runs > 0 /\ cp_raised = None

RepositoryWired == cp_config.repository \/ cp_config.publisher = "db"

\* the aggregated items with a URL, in aggregation order
UrlItems == SelectSeq(cp_aggregation.items, HasUrl)

\* C21: with a repository wired, the lookups of a run are the URLs of the
\* aggregated items that have one, in aggregation order, up to and including
\* the first URL the repository does not know; that item is the one selected
\* and the only one handed to the summarizer, and nothing after it is looked
\* up.  When every URL is known, all are looked up and no item is selected.
C21_LookupsStopAtFirstNewItem ==
    (RunSelected /\ RepositoryWired) =>
        /\ Len(lookups) <= Len(UrlItems)
        /\ \A k \in 1..Len(lookups) : lookups[k].url = UrlItems[k].url
        /\ \A k \in 1..(Len(lookups) - 1) : lookups[k].found # Nil
        /\ IF lookups # <<>> /\ lookups[Len(lookups)].found = Nil
           THEN selected_item = UrlItems[Len(lookups)]
           ELSE Len(lookups) = Len(UrlItems) /\ selected_item = Nil
        /\ \A k \in 1..Len(summarize_calls) : summarize_calls[k] = <<selected_item>>
        /\ Len(summarize_calls) <= 1

\* a stored item is passed over, the next one is new and summarised, and the
\* item after it is never looked up
C21_Witness ==
    /\ RunSelected
    /\ RepositoryWired
    /\ Len(lookups) = 2
    /\ lookups[1].found # Nil
    /\ lookups[2].found = Nil
    /\ Len(UrlItems) = 3
    /\ cp_aggregation.items[1].url = NoUrl
    /\ summarize_calls = << <<UrlItems[2]>> >>

\* an article in the articles table names the URL, up to normalisation
Stored(url) ==
    \E k \in 1..Len(articles) : \E j \in 1..Len(articles[k].source_urls) :
        normalise_url(articles[k].source_urls[j]) = normalise_url(url)

\* nothing to select: every item has no URL or, with a repository, is stored
NoSelectableItem ==
    \A i \in 1..Len(cp_aggregation.items) :
        \/ cp_aggregation.items[i].url = NoUrl
        \/ RepositoryWired /\ Stored(cp_aggregation.items[i].url)

\* C22: a run that selects no item had nothing to select, calls no
\* summarizer, editor or publisher and returns no draft, no publication, no
\* error and the aggregation's warnings followed by one more: the
\* nothing-to-summarise one for an empty aggregation, the nothing-new one
\* otherwise.  A run that goes on to the summarizer had an item to select.
C22_NoSelectableItemEndsQuietly ==
    /\ (RunSelected /\ selected_item = Nil) =>
        /\ NoSelectableItem
        /\ stage_log = <<>>
        /\ summarize_calls = <<>> /\ revise_calls = <<>> /\ cp_publish_calls = <<>>
        /\ cp_result # Nil
        /\ cp_result.errors = <<>>
        /\ cp_result.publication = Nil
        /\ cp_result.draft = Nil /\ cp_result.edited = Nil
        /\ cp_result.warnings =
               Append(cp_aggregation.errors,
                      IF cp_aggregation.items = <<>>
                      THEN "No aggregated content available to summarise."
                      ELSE "No new aggregated content available to publish.")
    /\ cp_pc = "summarize" => ~NoSelectableItem

\* every aggregated item is stored already, and a feed had failed
C22_Witness ==
    /\ RunSelected
    /\ selected_item = Nil
    /\ UrlItems # <<>>
    /\ lookups # <<>>
    /\ cp_result # Nil
    /\ cp_result.warnings = Append(ContentFeedErrors, NothingNew)

StageOrder == <<"summarize", "revise", "publish">>

\* C23: the collaborators are called in the order summarize, revise,
\* publish, each at most once and only after every earlier call returned.
\* When summarize raises, the result holds the one error "Summarizer failed:
\* <detail>" and no draft, and neither editor nor publisher is called; when
\* revise raises, it holds the one error "Editor failed: <detail>" and the
\* draft the summarizer returned, and the publisher is not called.
C23_StagesRunInOrderUntilOneFails ==
    /\ Len(stage_log) <= Len(StageOrder)
    /\ \A k \in 1..Len(stage_log) : stage_log[k].stage = StageOrder[k]
    /\ \A k \in 1..(Len(stage_log) - 1) : stage_log[k].raised = None
    /\ Len(summarize_calls) = (IF Len(stage_log) >= 1 THEN 1 ELSE 0)
    /\ Len(revise_calls) = (IF Len(stage_log) >= 2 THEN 1 ELSE 0)
    /\ Len(cp_publish_calls) = (IF Len(stage_log) >= 3 THEN 1 ELSE 0)
    /\ (Len(stage_log) = 1 /\ stage_log[1].raised # None) =>
        /\ cp_result # Nil
        /\ cp_result.errors = <<"Summarizer failed: " \o stage_log[1].raised>>
        /\ cp_result.draft = Nil
        /\ cp_result.edited = Nil
        /\ cp_result.publication = Nil
    /\ (Len(stage_log) = 2 /\ stage_log[2].raised # None) =>
        /\ cp_result # Nil
        /\ cp_result.errors = <<"Editor failed: " \o stage_log[2].raised>>
        /\ cp_result.draft = stage_log[1].returned
        /\ cp_result.draft # Nil
        /\ cp_result.edited = Nil
        /\ cp_result.publication = Nil

\* the editor raised on the draft the summarizer had returned
C23_Witness ==
    /\ Len(stage_log) = 2
    /\ stage_log[2].raised = EditorFailed
    /\ cp_result # Nil
    /\ cp_result.draft # Nil
    /\ cp_publish_calls = <<>>

\* the publisher was called in this run and raised
PublisherRaised == Len(stage_log) = 3 /\ stage_log[3].raised # None

\* C24: when the publisher raises, the result holds no publication, a
\* non-empty errors list, and the draft and the edited article the earlier
\* stages returned.
C24_PublisherFailureIsAnError ==
    PublisherRaised =>
        /\ cp_result # Nil
        /\ cp_result.publication = Nil
        /\ cp_result.errors # <<>>
        /\ cp_result.draft = stage_log[1].returned
        /\ cp_result.edited = stage_log[2].returned

\* ------------------------------------------------------------------------
\* The command line entry points (run_pipeline.py, run_tip_pipeline.py):
\* the exit code each returns for the result of its pipeline
\* ------------------------------------------------------------------------
ExitOk == 0
ExitFailure == 1

run_pipeline_exit_on_failure(r) == IF article_succeeded(r) THEN ExitOk ELSE ExitFailure

\* run_pipeline.run, lines 356-370
run_pipeline_exit(r) ==
    IF ~article_succeeded(r)
    THEN IF r.errors # <<>> THEN ExitFailure ELSE ExitOk
    ELSE ExitOk

\* run_tip_pipeline.main, lines 330-337
run_tip_pipeline_exit(r) == IF ~succeeded(r) THEN ExitFailure ELSE ExitOk

\* PipelinesSpec: the runs of one of the two pipelines, the article pipeline
\* or the tip pipeline
PipelinesNext ==
    \/ cp_runs = 0 /\ TipNext
    \/ runs = 0 /\ ContentNext

PipelinesSpec == ContentInit /\ [][PipelinesNext]_vars

\* C25: both entry points return a non-zero exit code whenever the result
\* has errors or did not succeed, and zero when the run succeeded, warnings
\* or not.
C25_ExitCodeReflectsFailure ==
    /\ cp_result # Nil =>
        /\ (cp_result.errors # <<>> \/ cp_result.publication = Nil)
               => run_pipeline_exit(cp_result) # 0
        /\ (cp_result.errors = <<>> /\ cp_result.publication # Nil)
               => run_pipeline_exit(cp_result) = 0
    /\ result # Nil =>
        /\ (result.errors # <<>> \/ result.tip = Nil)
               => run_tip_pipeline_exit(result) # 0
        /\ (result.errors = <<>> /\ result.tip # Nil)
               => run_tip_pipeline_exit(result) = 0

\* C25 as the code has it: run_pipeline.run returns a non-zero exit code
\* exactly when the result has errors, so a run that published nothing and
\* recorded no error exits with zero; run_tip_pipeline.main returns a
\* non-zero exit code exactly when the run did not succeed.
C25_ExitCodeByErrors ==
    /\ cp_result # Nil =>
        (run_pipeline_exit(cp_result) # 0 <=> cp_result.errors # <<>>)
    /\ result # Nil =>
        (run_tip_pipeline_exit(result) # 0 <=> (result.errors # <<>> \/ result.tip = Nil))

\* a run of the article pipeline that found nothing new to publish: no
\* publication, no error, one warning, exit code zero
C25_Witness ==
    /\ cp_result # Nil
    /\ cp_result.publication = Nil
    /\ cp_result.errors = <<>>
    /\ cp_result.warnings = <<NothingNew>>
    /\ stage_log = <<>>
    /\ run_pipeline_exit(cp_result) = 0

\* ------------------------------------------------------------------------
\* Claims about both pipelines (PipelinesSpec) and about TipPipeline.run
\* (TipSpec)
\* ------------------------------------------------------------------------
\* a summarizer, editor or article publisher call of the run raised
ContentStageRaised == \E k \in 1..Len(stage_log) : stage_log[k].raised # None

\* a generator or tip editor call of the run raised
TipStageRaised ==
    \E k \in 1..Len(outcomes) : outcomes[k].kind \in {"generator_raised", "review_raised"}

\* the tip publisher was called and the run returned without a publication
TipPublisherRaised ==
    /\ pc = "done"
    /\ publish_calls # <<>>
    /\ result.publication = Nil

\* C26: a run in which a summarizer, editor, tip generator, tip editor or
\* publisher call raised, on whichever attempt, propagates no exception: it
\* is either still running its next step or has returned a result with every
\* field of the result record.
C26_StageFailuresNeverPropagate ==
    /\ ContentStageRaised =>
        /\ cp_raised = None
        /\ cp_pc = "idle"
        /\ cp_result # Nil
        /\ DOMAIN cp_result =
               {"aggregation", "draft", "edited", "publication", "errors", "warnings"}
    /\ TipStageRaised =>
        \/ pc \in {"generate", "review", "after"} /\ result = Nil
        \/ pc = "done" /\ result # Nil
    /\ (pc = "done" /\ runs > 0) =>
        /\ result # Nil
        /\ DOMAIN result =
               {"aggregation", "draft", "tip", "publication", "errors", "warnings",
                "generation_attempts", "editor_feedback"}

\* the tip generator raised on the first attempt, the tip editor on the
\* second, and the publisher on the third: the run returned a result
C26_Witness ==
    /\ pc = "done"
    /\ Len(outcomes) = 3
    /\ outcomes[1].kind = "generator_raised"
    /\ outcomes[2].kind = "review_raised"
    /\ outcomes[3].kind = "approved"
    /\ TipPublisherRaised
    /\ result.errors # <<>>

\* the warnings the run added to the feed errors of the aggregation
AddedWarnings ==
    SubSeq(warnings, Len(aggregation.errors) + 1, Len(warnings))

LookupWarnings ==
    {"Could not fetch existing tips for comparison: " \o exc : exc \in LookupExcs}

\* repository.get_latest_tips raised at the start of the current run
LookupRaised ==
    /\ runs > 0
    /\ AddedWarnings # <<>>
    /\ AddedWarnings[1] \in LookupWarnings

\* C27: after get_latest_tips raised, the run holds exactly one warning about
\* it and no error from it, has entered the generate/review loop, and hands
\* every editor.review call an empty list of existing tips.
C27_LookupFailureOnlyWarns ==
    LookupRaised =>
        /\ Cardinality({k \in 1..Len(warnings) : warnings[k] \in LookupWarnings}) = 1
        /\ attempt = 0 => (errors = <<>> /\ pc = "generate" /\ result = Nil)
        /\ Len(errors) <= Len(outcomes) + 1
        /\ existing_tips = <<>>
        /\ \A k \in 1..Len(review_calls) : review_calls[k].existing_tips = <<>>
        /\ generate_calls = <<>> => pc = "generate"

\* the repository holds a tip, the fetch raised, and the run went on to
\* review against no existing tips and to publish
C27_Witness ==
    /\ LookupRaised
    /\ pc = "done"
    /\ tips # <<>>
    /\ publish_log = <<>>
    /\ runs = 2
    /\ review_calls # <<>>
    /\ result.publication # Nil
    /\ result.errors = <<>>

\* C28: when publisher.publish raised for the approved draft, the result
\* holds no tip and no publication, "Tip publisher failed: <detail>" as its
\* last error, the draft that was handed to the publisher, and the attempt
\* count and feedback log of the approving iteration.
C28_TipPublisherFailureResult ==
    TipPublisherRaised =>
        /\ result.tip = Nil
        /\ result.publication = Nil
        /\ result.errors # <<>>
        /\ result.errors[Len(result.errors)] \in
               {"Tip publisher failed: Tip draft body cannot be empty",
                "Tip publisher failed: repository unavailable"}
        /\ Len(publish_calls) = 1
        /\ result.draft = publish_calls[1]
        /\ outcomes[Len(outcomes)].kind = "approved"
        /\ result.generation_attempts = Len(outcomes)
        /\ result.generation_attempts = Len(generate_calls)
        /\ result.editor_feedback = feedback_log

\* the editor approved the second attempt with a revised draft, and the
\* repository failed when the publisher saved it
C28_Witness ==
    /\ TipPublisherRaised
    /\ Len(outcomes) = 2
    /\ outcomes[1].kind = "rejected"
    /\ draft = DraftMove
    /\ result.draft = RevisedMove
    /\ result.errors = <<"Tip publisher failed: repository unavailable">>
    /\ result.generation_attempts = 2

\* ------------------------------------------------------------------------
\* Claims about the article publishers (ArticlePubSpec)
\* ------------------------------------------------------------------------
\* what content equality compares: title, summary and body trimmed, the set
\* of sources and the set of tags, each trimmed and without empty ones
NormalForm(a) ==
    [title |-> Strip(a.title), summary |-> Strip(a.summary),
     body |-> Strip(a.content_body),
     sources |-> AsSet(listify_urls(a.source_urls)),
     tags |-> AsSet(listify_strings(a.tags))]

ContentEqual(stored, edited) == NormalForm(stored) = NormalForm(to_article(edited))

BaseSlugOf(call) == slugify(IF call.slug # <<>> THEN call.slug ELSE call.article.title)

\* the slugs tried for a base slug: base, base-2, base-3, ...
SlugVariant(base, n) == IF n = 1 THEN base ELSE suffixed_slug(base, n)

\* the stored rows a publish call with this base slug walks over
VariantRows(rows, base) ==
    {i \in 1..Len(rows) : \E n \in 1..(Len(rows) + 1) : rows[i].id = SlugVariant(base, n)}

FirstFreeSlug(rows, base) ==
    SlugVariant(base, CHOOSE n \in 1..(Len(rows) + 1) :
                          /\ SlugVariant(base, n) \notin ArticleIds(rows)
                          /\ \A m \in 1..(n - 1) : SlugVariant(base, m) \in ArticleIds(rows))

\* C29: a LocalDBPublisher.publish call whose article is content-equal to a
\* row stored under its base slug or a numeric-suffix variant of it saves
\* nothing and returns the slug of that row; a call whose article differs
\* from all of them saves it under the first free slug among base, base-2,
\* base-3, ...; so no two rows stored under the variants of one base slug
\* are content-equal.
C29_RepublishingReusesTheStoredArticle ==
    /\ \A k \in 1..Len(article_log) :
        LET call == article_log[k]
            base == BaseSlugOf(call)
            equal == {i \in VariantRows(call.before, base) :
                          ContentEqual(call.before[i], call.article)}
        IN  IF equal # {}
            THEN /\ call.saved = <<>>
                 /\ call.raised = None
                 /\ \E i \in equal : call.publication.slug = call.before[i].id
            ELSE /\ Len(call.saved) = 1
                 /\ call.saved[1].id = FirstFreeSlug(call.before, base)
                 /\ call.raised = None => call.publication.slug = call.saved[1].id
    /\ \A i, j \in 1..Len(articles) :
        (i # j /\ \E base \in {slugify(<<"a">>)} : {i, j} \subseteq VariantRows(articles, base))
            => NormalForm(articles[i]) # NormalForm(articles[j])


\* the front matter and body of a published Markdown file, normalised as
\* NormalForm normalises a stored article
FileNormalForm(file) ==
    [title |-> Strip(file.payload.title), summary |-> Strip(file.payload.summary),
     body |-> Strip(file.payload.body),
     sources |-> AsSet(listify_urls(file.payload.sources)),
     tags |-> AsSet(listify_strings(file.payload.tags))]

\* the files a GitPublisher.publish call with this base slug walks over
VariantFiles(files, base) ==
    {i \in 1..Len(files) : \E n \in 1..(Len(files) + 1) : files[i].slug = SlugVariant(base, n)}

\* the content directory a GitPublisher.publish call leaves behind
GitFilesAfter(k) == IF k < Len(git_log) THEN git_log[k + 1].before ELSE git_files

\* C30: whichever publisher is used, publishing an article content-equal to
\* one already published under the same base slug writes nothing (no
\* save_article call, no new Markdown file), and no two published records
\* of one base slug are content-equal.
C30_BothPublishersAreIdempotent ==
    /\ \A k \in 1..Len(article_log) :
        LET call == article_log[k]
        IN  (\E i \in VariantRows(call.before, BaseSlugOf(call)) :
                 ContentEqual(call.before[i], call.article))
                => call.saved = <<>>
    /\ \A k \in 1..Len(git_log) :
        LET call == git_log[k]
        IN  (\E i \in VariantFiles(call.before, BaseSlugOf(call)) :
                 FileNormalForm(call.before[i]) = NormalForm(to_article(call.article)))
                => GitFilesAfter(k) = call.before
    /\ \A i, j \in 1..Len(git_files) :
        (i # j /\ {i, j} \subseteq VariantFiles(git_files, slugify(<<"a">>)))
            => FileNormalForm(git_files[i]) # FileNormalForm(git_files[j])

\* the base slug of a GitPublisher.publish call (publisher.py line 88)
GitBaseSlugOf(call) ==
    slugify(IF call.slug # <<>> THEN call.slug ELSE to_article(call.article).title)

FirstFreeFileSlug(files, base) ==
    SlugVariant(base, CHOOSE n \in 1..(Len(files) + 1) :
                          /\ SlugVariant(base, n) \notin FileSlugs(files)
                          /\ \A m \in 1..(n - 1) : SlugVariant(base, m) \in FileSlugs(files))

GitWrote(call) == call.raised # RepoMissing

\* C31: GitPublisher.publish never overwrites an article file.  Every call
\* leaves the files that were there as they were; a call that gets to
\* writing adds exactly one file, at the first slug among base, base-2,
\* base-3, ... that had no file, and returns that slug; so two publishes
\* that returned for the same base slug returned different slugs and both
\* of their files exist.
C31_GitPublishNeverOverwrites ==
    /\ \A k \in 1..Len(git_log) :
        LET call == git_log[k]
            after == GitFilesAfter(k)
        IN  /\ SubSeq(after, 1, Len(call.before)) = call.before
            /\ IF GitWrote(call)
               THEN /\ Len(after) = Len(call.before) + 1
                    /\ after[Len(after)].slug =
                           FirstFreeFileSlug(call.before, GitBaseSlugOf(call))
                    /\ after[Len(after)].slug \notin FileSlugs(call.before)
                    /\ call.publication # Nil
                           => call.publication.slug = after[Len(after)].slug
               ELSE after = call.before
    /\ \A j, k \in 1..Len(git_log) :
        (j < k /\ git_log[j].publication # Nil /\ git_log[k].publication # Nil
               /\ GitBaseSlugOf(git_log[j]) = GitBaseSlugOf(git_log[k]))
            => /\ git_log[j].publication.slug # git_log[k].publication.slug
               /\ {git_log[j].publication.slug, git_log[k].publication.slug}
                      \subseteq FileSlugs(git_files)
    /\ \A i, j \in 1..Len(git_files) : i # j => git_files[i].slug # git_files[j].slug

\* two publishes of the same slug have returned and a third one found both files
C31_Witness ==
    /\ Len(git_log) = 3
    /\ \A k \in 1..3 : git_log[k].publication # Nil /\ git_log[k].slug = <<"A", "!">>
    /\ git_log[3].publication.slug = suffixed_slug(<<"a">>, 3)
    /\ Len(git_files) = 3

\* the candidate a Gather_Entry step has just looked up
LookedUp == considered'[Len(considered')].item

\* the first of the three indexes, in the order URL, GUID, signature, that
\* holds the candidate's key
FirstMatch(candidate) ==
    LET url == normalise_url(candidate.url)
        guid == guid_key(candidate)
        signature == signature_key(candidate)
    IN  IF url # NoUrl /\ url \in DOMAIN index_by_url THEN index_by_url[url]
        ELSE IF guid # <<>> /\ guid \in DOMAIN index_by_guid THEN index_by_guid[guid]
        ELSE IF signature \in DOMAIN index_by_signature
        THEN index_by_signature[signature]
        ELSE NoIndex

LookupStep ==
    IF FirstMatch(LookedUp) # NoIndex
    THEN /\ collected' = collected
         /\ IF should_replace(collected[FirstMatch(LookedUp)], LookedUp)
            THEN /\ gather_pc' = "remove"
                 /\ existing_index' = FirstMatch(LookedUp)
                 /\ aggregated' = LookedUp
            ELSE gather_pc' # "remove"
    ELSE collected' = Append(collected, LookedUp)

\* the steps from the lookup to the end of the entry touch one position only
OnePositionStep ==
    /\ Len(collected') = Len(collected)
    /\ \A i \in 1..Len(collected) : i # existing_index => collected'[i] = collected[i]
    /\ gather_pc = "assign" => collected'[existing_index] = aggregated

\* C32: gather looks a candidate up by URL key, then GUID key, then
\* signature key, and the first index that holds its key decides: the
\* candidate is resolved against that one collected item (it replaces it or
\* is dropped) even when a later key matches another item, and every other
\* collected item stays where it is.
C32_FirstMatchingKeyDecides ==
    [][/\ (gather_pc = "entry" /\ considered' # considered) => LookupStep
       /\ gather_pc \in {"remove", "assign", "record"} => OnePositionStep]_vars

\* a candidate about to replace the item found by URL while its GUID key
\* points at another collected item
C32_Witness ==
    /\ gather_pc = "remove"
    /\ normalise_url(aggregated.url) \in DOMAIN index_by_url
    /\ guid_key(aggregated) \in DOMAIN index_by_guid
    /\ index_by_guid[guid_key(aggregated)] # index_by_url[normalise_url(aggregated.url)]
    /\ existing_index = index_by_url[normalise_url(aggregated.url)]
    /\ collected[index_by_guid[guid_key(aggregated)]].url = NoUrl

\* ------------------------------------------------------------------------
\* SharedKeySpec: gather over one feed whose entries share a GUID or a
\* title and time while their links differ, so that a candidate is matched
\* by each of the three keys with every combination of URLs
\* ------------------------------------------------------------------------
UrlLong == Url(Http, <<"a">>, <<"/","p","p">>, <<>>, <<>>)
UrlStoryFragment == Url(Http, <<"a">>, StoryPath, <<>>, <<"f">>)

EntryLong == FeedEntry(<<"d">>, UrlLong, <<"b">>, 1)
EntryFragment == FeedEntry(<<"e">>, UrlStoryFragment, <<"b">>, 1)
EntryGclidGuid == FeedEntry(<<"k">>, UrlStoryGclid, <<"b">>, 2)
EntryLongSameTitle == FeedEntry(<<"c">>, UrlLong, <<>>, 1)

SharedKeyPool ==
    {EntryStory, EntryLong, EntryFragment, EntryGclidGuid, EntryUtm, EntryLongSameTitle,
     EntryGuidOnly}

SharedKeyFeedLists ==
    {<<[name |-> FeedNames[1], response |-> Response("ok", es, "")]>> :
        es \in UNION {[1..n -> SharedKeyPool] : n \in 0..MaxFeedLen}}

\* gather(), lines 63-72, called on one of these feeds
Gather_CallShared ==
    /\ gather_pc = "idle"
    /\ \E fs \in SharedKeyFeedLists :
           /\ feeds' = fs
           /\ limit_per_feed' = DEFAULT_LIMIT_PER_FEED
    /\ gather_pc' = "feed"
    /\ feed_no' = 1
    /\ UNCHANGED <<entries, entry_no, collected, feed_errors, index_by_url,
                   index_by_guid, index_by_signature, aggregated, existing_index,
                   gathered, clock, considered, replacements>>
    /\ UNCHANGED <<tips, save_calls, publish_log>>
    /\ UNCHANGED run_vars
    /\ UNCHANGED content_vars

SharedKeyNext ==
    \/ Gather_CallShared
    \/ Gather_Fetch
    \/ Gather_Entry
    \/ Gather_RemoveIndexes
    \/ Gather_Assign
    \/ Gather_RecordIndexes
    \/ Gather_Return

SharedKeySpec == AggInit /\ [][SharedKeyNext]_vars

\* the candidate lacks tracking parameters while the existing item has them
PreferredForTracking(existing, candidate) ==
    has_tracking(existing.url) /\ ~has_tracking(candidate.url)

ShorterUrlStep ==
    LET existing == collected[FirstMatch(LookedUp)]
    IN  (/\ FirstMatch(LookedUp) # NoIndex
         /\ existing.url # NoUrl
         /\ LookedUp.url # NoUrl
         /\ ~PreferredForTracking(existing, LookedUp))
            => (gather_pc' = "remove" <=> UrlLen(LookedUp.url) < UrlLen(existing.url))

\* C33: when a candidate matches a collected item by its URL, GUID or
\* signature key, both have a URL and the tracking rule does not apply,
\* the candidate replaces the item exactly when its URL is strictly shorter.
C33_ShorterUrlIsKept ==
    [][(gather_pc = "entry" /\ considered' # considered) => ShorterUrlStep]_vars

\* C34: ContentPipeline.run ends by returning a PipelineResult, never by
\* raising, also when repository.find_article_by_source_url raised while
\* it selected the item.
C34_RunReturnsWhenLookupRaises ==
    (cp_runs > 0 /\ cp_pc = "idle") =>
        /\ cp_raised = None
        /\ cp_result # Nil

\* the warnings of a result begin with the errors of its aggregation, and
\* none of those is among its errors
SeededFromAggregation(r) ==
    /\ Len(r.warnings) >= Len(r.aggregation.errors)
    /\ SubSeq(r.warnings, 1, Len(r.aggregation.errors)) = r.aggregation.errors
    /\ \A i \in 1..Len(r.errors), j \in 1..Len(r.aggregation.errors) :
           r.errors[i] # r.aggregation.errors[j]

\* C35: every result of ContentPipeline.run and of TipPipeline.run has
\* warnings that start with the aggregation's errors in their order, has
\* none of them among its errors, and a run whose stages all returned
\* succeeds whether or not the aggregation had errors.
C35_WarningsSeededFromAggregation ==
    /\ cp_result # Nil =>
        /\ cp_result.aggregation = cp_aggregation
        /\ SeededFromAggregation(cp_result)
        /\ (cp_result.publication # Nil /\ ~ContentStageRaised) => article_succeeded(cp_result)
    /\ result # Nil =>
        /\ result.aggregation = aggregation
        /\ SeededFromAggregation(result)
        /\ (result.publication # Nil /\ ~TipStageRaised) => succeeded(result)

\* a content run that published although two feeds of its aggregation failed
C35_Witness ==
    /\ cp_result # Nil
    /\ Len(cp_result.aggregation.errors) > 0
    /\ cp_result.warnings = cp_result.aggregation.errors
    /\ article_succeeded(cp_result)

\* ------------------------------------------------------------------------
\* ArticleRepoSpec: sequences of LocalSQLiteContentRepository.save_article
\* calls on an initially empty database, inserts and upserts alike
\* ------------------------------------------------------------------------
UrlFragmentOnly == Url(<<>>, <<>>, <<>>, <<>>, <<"f">>)

RepoSourceLists ==
    {<<>>, <<UrlStory>>, <<UrlStoryUtm, UrlOther>>, <<UrlFragmentOnly, UrlOther>>,
     <<NoUrl, UrlStory>>}

RepoArticles ==
    {Article(id, <<"t">>, <<>>, <<"b">>, NowDate, source_urls, <<>>) :
        id \in {<<"a">>, <<"b">>}, source_urls \in RepoSourceLists}

\* save_article, lines 257-299, returning normally
Repo_SaveArticle ==
    /\ Len(save_article_calls) < MaxPublishCalls
    /\ \E article \in RepoArticles :
        \E o \in {save_article(articles, article_sources, article)} :
            /\ articles' = o.articles
            /\ article_sources' = o.article_sources
            /\ save_article_calls' = Append(save_article_calls, article)
    /\ UNCHANGED <<article_log, git_files, git_commits, git_log>>
    /\ UNCHANGED <<tips, save_calls, publish_log>>
    /\ UNCHANGED <<run_vars, agg_vars, cp_vars>>

ArticleRepoNext == Repo_SaveArticle

ArticleRepoSpec == ArticlePubInit /\ [][ArticleRepoNext]_vars

\* the URLs find_article_by_source_url is asked for
ProbeUrls == {UrlStory, UrlStoryUtm, UrlOther, UrlStoryFragment, UrlFragmentOnly}

SameNormalForm(url) == {v \in ProbeUrls : normalise_url(v) = normalise_url(url)}

LastSaved == save_article_calls[Len(save_article_calls)]

\* each normalized URL has one row, and the row names a stored article
SourceIndexIsAMap ==
    /\ \A r, q \in article_sources : r.normalized_url = q.normalized_url => r = q
    /\ \A r \in article_sources :
        /\ r.normalized_url # NoUrl
        /\ r.article_id \in ArticleIds(articles)

\* C36 as stated: every non-empty source URL of the article just
\* saved, in every spelling with the same normalized form, finds an article
C36_EverySourceUrlIsFound ==
    /\ SourceIndexIsAMap
    /\ save_article_calls # <<>> =>
        \A k \in 1..Len(LastSaved.source_urls) :
            LastSaved.source_urls[k] # NoUrl =>
                \A v \in SameNormalForm(LastSaved.source_urls[k]) :
                    find_article_by_source_url(articles, article_sources, v) # Nil

\* C36: after any sequence of save_article calls each normalized source URL
\* maps to one stored article, and after save_article(a) has returned
\* find_article_by_source_url returns an article for every source URL of a
\* whose normalized form is not empty, and for every URL with that same
\* normalized form.
C36_NormalizedSourceUrlsAreFound ==
    /\ SourceIndexIsAMap
    /\ save_article_calls # <<>> =>
        \A k \in 1..Len(LastSaved.source_urls) :
            normalise_url(LastSaved.source_urls[k]) # NoUrl =>
                \A v \in SameNormalForm(LastSaved.source_urls[k]) :
                    find_article_by_source_url(articles, article_sources, v) # Nil

\* an article saved with a source that another article already holds: the
\* URL, asked for in another spelling, finds that other article
C36_Witness ==
    /\ Len(save_article_calls) >= 2
    /\ LastSaved.source_urls = <<UrlStoryUtm, UrlOther>>
    /\ find_article_by_source_url(articles, article_sources, UrlStoryFragment) # Nil
    /\ find_article_by_source_url(articles, article_sources, UrlStoryFragment).id
           # LastSaved.id
    /\ find_article_by_source_url(articles, article_sources, UrlOther).id = LastSaved.id

\* C37: every PipelineResult returned by ContentPipeline.run has an edited
\* article whenever it has a publication and a draft whenever it has an
\* edited article, holds at most one error, has no publication when it
\* holds an error, and succeeded is true exactly when it has a publication
\* and no error.
C37_ResultShape ==
    cp_result # Nil =>
        /\ cp_result.publication # Nil => cp_result.edited # Nil
        /\ cp_result.edited # Nil => cp_result.draft # Nil
        /\ Len(cp_result.errors) <= 1
        /\ cp_result.errors # <<>> => cp_result.publication = Nil
        /\ article_succeeded(cp_result)
               <=> (cp_result.publication # Nil /\ cp_result.errors = <<>>)
        /\ cp_result.draft = cp_draft
        /\ cp_result.edited = cp_edited

\* a run returned after its editor failed: a draft, no edited article, one error
C37_Witness ==
    /\ cp_result # Nil
    /\ cp_result.draft # Nil
    /\ cp_result.edited = Nil
    /\ Len(cp_result.errors) = 1
    /\ ~article_succeeded(cp_result)
    /\ cp_runs = 2

\* C38: a TipPipeline.run that reached approval and whose publisher
\* returned a tip is a success, whatever the earlier attempts of the run
\* did: rejections, generator exceptions, empty drafts, review exceptions.
C38_ApprovedAndPublishedSucceeds ==
    (pc = "done" /\ result # Nil /\ result.publication # Nil) =>
        /\ result.tip # Nil
        /\ succeeded(result)

\* the articles table a LocalDBPublisher.publish call leaves behind
DbRowsAfter(k) == IF k < Len(article_log) THEN article_log[k + 1].before ELSE articles

\* C39: LocalDBPublisher.publish never overwrites a stored article.  It
\* hands save_article only an id that no stored article had when the call
\* began, and every article stored before the call is the same row after
\* it, whether the call reused an article, saved a new one or failed.
C39_DbPublishNeverOverwrites ==
    \A k \in 1..Len(article_log) :
        LET call == article_log[k]
            after == DbRowsAfter(k)
        IN  /\ \A i \in 1..Len(call.saved) :
                   /\ call.saved[i].id \notin ArticleIds(call.before)
                   /\ get_article(call.before, call.saved[i].id) = Nil
            /\ Len(after) >= Len(call.before)
            /\ SubSeq(after, 1, Len(call.before)) = call.before
            /\ Len(after) = Len(call.before)
                   + (IF call.saved # <<>> /\ call.raised = None THEN 1 ELSE 0)

\* a publish that found its base slug taken by a different article and saved
\* under the next slug, the stored article staying as it was
C39_Witness ==
    /\ Len(article_log) = 2
    /\ article_log[2].raised = None
    /\ Len(article_log[2].saved) = 1
    /\ article_log[2].saved[1].id = suffixed_slug(<<"a">>, 2)
    /\ Len(articles) = 2
    /\ articles[1].id = <<"a">>
    /\ articles[1] = article_log[2].before[1]
    /\ articles[1].content_body # articles[2].content_body

====
